---- MODULE Spec2Model ----
(***************************************************************************)
(* FileInsight: the Gemini service layer (src/services/geminiService.ts).  *)
(* The file holds two variants of the service:                             *)
(*   variant A (lines 1-371)   promise-memoized store, in-memory API key   *)
(*   variant B (lines 373-639) name-cached store, withRetry, env API key   *)
(* Each variant is modelled as a set of cooperatively scheduled tasks that *)
(* suspend at every await; one action is one run-to-suspension step.       *)
(***************************************************************************)
EXTENDS Integers, Sequences, FiniteSets, TLC

(***************************************************************************)
(* Bounds of the model                                                     *)
(***************************************************************************)
MaxInvocations == 6     \* cap on invocations of fn in one withRetry run
MaxKeyChanges == 2      \* setApiKey / clearApiKey calls in one behaviour
MaxCallsA == 3          \* initializeChatSession calls (variant A)
NumTasksA == 2          \* initializeChatSession calls that may overlap (variant A)
MaxCreatesB == 5        \* fileSearchStores.create attempts (variant B)
MaxCallsB == 3          \* calls of getOrCreateStore's callers (variant B)
NumTasksB == 2          \* calls that may overlap (variant B)
MaxDeletesB == 1        \* stores deleted or expired on the server (variant B)
MaxPolls == 63          \* operations.get polls followed in one upload (A)
MaxRunsA == 2           \* uploadFileToGemini runs (variant A)
MaxRunsB == 2           \* uploadFileToGemini runs (variant B)
MaxSendsA == 2          \* sendMessageStream calls (variant A)
MaxSendsB == 2          \* sendMessageStream calls (variant B)
MaxChunks == 2          \* fragments followed in one response stream
MaxSelected == 2         \* files in one selection handed to handleFiles
MaxListed == 2          \* files in the list when the user deletes one
MaxBatches == 2         \* handleAddFiles calls, which may overlap, in the file list model
MaxFileIds == 4         \* files ever added in the file list model
MaxDispatched == 3      \* sends followed in the chat continuity model
MaxRefreshes == 2       \* refreshes and credential changes in the chat continuity model
MaxInvoked == 4         \* invocations of the send handler in the send guard model

(***************************************************************************)
(* Program constants                                                       *)
(***************************************************************************)
MAX_RETRIES == 3
RETRY_DELAY_BASE == 1000
FILE_PROCESSING_POLL_INTERVAL == 2000
maxRetries == 60                 \* waitForFileActive's poll cap

\* src/constants.ts; a string that the code takes apart is the sequence of
\* its characters
MAX_FILE_SIZE == 5 * 1024 * 1024
MAX_FILE_SIZE_25MB == 25 * 1024 * 1024      \* the second constants.ts (line 45)
SUPPORTED_EXTENSIONS ==
  { <<".", "t", "x", "t">>,
    <<".", "m", "d">>,
    <<".", "j", "s", "o", "n">>,
    <<".", "c", "s", "v">>,
    <<".", "j", "s">>,
    <<".", "j", "s", "x">>,
    <<".", "t", "s">>,
    <<".", "t", "s", "x">>,
    <<".", "p", "y">>,
    <<".", "h", "t", "m", "l">>,
    <<".", "c", "s", "s">>,
    <<".", "x", "m", "l">>,
    <<".", "s", "q", "l">>,
    <<".", "p", "d", "f">> }
\* MIME_TYPE_MAP[key], for the keys it has
MIME_TYPE_KEYS ==
  { <<"t", "x", "t">>,
    <<"m", "d">>,
    <<"j", "s", "o", "n">>,
    <<"c", "s", "v">>,
    <<"j", "s">>,
    <<"j", "s", "x">>,
    <<"t", "s">>,
    <<"t", "s", "x">>,
    <<"p", "y">>,
    <<"h", "t", "m", "l">>,
    <<"c", "s", "s">>,
    <<"x", "m", "l">>,
    <<"s", "q", "l">>,
    <<"p", "d", "f">> }
MIME_TYPE_MAP(key) ==
  CASE key = <<"t", "x", "t">> -> "text/plain"
    [] key = <<"m", "d">> -> "text/markdown"
    [] key = <<"j", "s", "o", "n">> -> "application/json"
    [] key = <<"c", "s", "v">> -> "text/csv"
    [] key = <<"j", "s">> -> "text/javascript"
    [] key = <<"j", "s", "x">> -> "text/javascript"
    [] key = <<"t", "s">> -> "text/javascript"
    [] key = <<"t", "s", "x">> -> "text/javascript"
    [] key = <<"p", "y">> -> "text/x-python"
    [] key = <<"h", "t", "m", "l">> -> "text/html"
    [] key = <<"c", "s", "s">> -> "text/css"
    [] key = <<"x", "m", "l">> -> "text/xml"
    [] key = <<"s", "q", "l">> -> "application/x-sql"
    [] key = <<"p", "d", "f">> -> "application/pdf"

None == 0
NoNum == 0 - 1          \* "typeof x !== 'number'"

\* "no session": currentChatSession = null (variant A), currentChat = null (variant B)
NoSession == [store |-> None, key |-> None, changesAtCall |-> 0]
NoChat == [store |-> None]

(***************************************************************************)
(* Errors.  An error value carries the four places getErrorStatus looks    *)
(* at (err.status, err.code, err.error.code, err.error.status) and its     *)
(* message.                                                                *)
(***************************************************************************)
MkErr(status, code, ecode, estatus, msg) ==
  [status |-> status, code |-> code, ecode |-> ecode, estatus |-> estatus, msg |-> msg]

PlainError(msg) == MkErr(NoNum, NoNum, NoNum, NoNum, msg)
ApiError(status, msg) == MkErr(status, NoNum, NoNum, NoNum, msg)

Errors ==
  { ApiError(429, "rate limited"),
    ApiError(500, "internal error"),
    ApiError(404, "not found"),
    ApiError(403, "forbidden"),
    ApiError(400, "bad request"),
    MkErr(NoNum, 503, NoNum, NoNum, "unavailable"),
    MkErr(NoNum, NoNum, 429, NoNum, "quota exceeded"),
    PlainError("network error"),
    PlainError("") }

NoErr == PlainError("<no error>")

\* getErrorStatus (variant B)
getErrorStatus(err) ==
  IF err.status # NoNum THEN err.status
  ELSE IF err.code # NoNum THEN err.code
  ELSE IF err.ecode # NoNum THEN err.ecode
  ELSE IF err.estatus # NoNum THEN err.estatus
  ELSE 0

RECURSIVE Pow2(_)
Pow2(n) == IF n = 0 THEN 1 ELSE 2 * Pow2(n - 1)

\* withRetry: const isTransient = status === 429 || status >= 500
isTransient_OnlyRateLimit(status) == status = 429
isTransient_AllClientErrors(status) == status >= 400
isTransient(status) == status = 429 \/ status >= 500

\* withRetry: if (retries > 0 && isTransient)
ShouldRetry_Unbounded(err, retries) == isTransient(getErrorStatus(err))
ShouldRetry(err, retries) == retries > 0 /\ isTransient(getErrorStatus(err))

\* withRetry: RETRY_DELAY_BASE * Math.pow(2, MAX_RETRIES - retries)
RetryDelay(retries) == RETRY_DELAY_BASE * Pow2(MAX_RETRIES - retries)

Values == {"v1", "v2"}

(***************************************************************************)
(* State                                                                   *)
(***************************************************************************)
VARIABLES
  variant,                 \* which variant of the service the behaviour runs: "A", "B", or "retry"
  rt,                      \* one withRetry run: pc, retries, calls, outcomes, delays, result
  userApiKey,              \* variant A: let userApiKey
  currentChatSession,      \* variant A: let currentChatSession
  fileSearchStorePromise,  \* variant A: let fileSearchStorePromise (promise id or None)
  promises,                \* variant A: the store-creation promises made so far
  taskA,                   \* variant A: the calls of initializeChatSession / uploadFileToGemini
  histA,                   \* variant A: history (key changes, calls issued, creates issued)
  envApiKey,               \* variant B: process.env.API_KEY is set
  activeStoreName,         \* variant B: let activeStoreName
  currentChat,             \* variant B: let currentChat
  serverStores,            \* variant B: the stores alive on the server
  taskB,                   \* variant B: the calls of initializeChatSession / uploadFileToGemini
  histB,                   \* variant B: history (creates, names found stale)
  app,                     \* the host application: the batch handleAddFiles is working on
  uploader                 \* FileUploader: the selection handleFiles is working on

varsR == <<rt>>
varsA == <<userApiKey, currentChatSession, fileSearchStorePromise, promises, taskA, histA>>
varsB == <<envApiKey, activeStoreName, currentChat, serverStores, taskB, histB>>
vars == <<variant, rt, userApiKey, currentChatSession, fileSearchStorePromise, promises,
          taskA, histA, envApiKey, activeStoreName, currentChat,
          serverStores, taskB, histB, app, uploader>>

TasksA == 1..NumTasksA
PromiseIds == 1..MaxCallsA
TasksB == 1..NumTasksB

\* A returned FileDocument: status, uploadUri (None when unset), error ("" when unset)
NoDoc == [status |-> "pending", uploadUri |-> None, error |-> ""]

IdleTaskA == [pc |-> "idle", op |-> "none", ai |-> None, promise |-> None, store |-> None,
              error |-> NoErr, duringFirst |-> FALSE, joinedRejected |-> FALSE,
              uri |-> None, imported |-> FALSE, polls |-> 0, elapsed |-> 0,
              opError |-> FALSE, failedAt |-> "none", doc |-> NoDoc,
              fragments |-> <<>>, delivered |-> <<>>, fullText |-> <<>>, result |-> <<>>,
              dispatches |-> 0, opened |-> FALSE, raised |-> NoErr, midStream |-> FALSE,
              chatBefore |-> NoSession, chatAfter |-> NoSession,
              keyless |-> FALSE, changesAtCall |-> 0, session |-> NoSession,
              sessions |-> 0, deletedAtCall |-> {}]

IdleTaskB == [pc |-> "idle", op |-> "none", checking |-> None, retries |-> 0,
              store |-> None, error |-> NoErr, startedEmpty |-> FALSE,
              staleSeen |-> None, createdOwn |-> None,
              uri |-> None, imported |-> FALSE, polls |-> 0, everFailed |-> FALSE,
              fileActive |-> FALSE, failedAt |-> "none",
              doc |-> NoDoc,
              fragments |-> <<>>, delivered |-> <<>>, fullText |-> <<>>, result |-> <<>>,
              dispatches |-> 0, opened |-> FALSE, openedAt |-> 0, sessions |-> 0,
              session |-> NoChat, raised |-> NoErr, midStream |-> FALSE,
              chatBefore |-> NoChat, chatAfter |-> NoChat, nameAfter |-> None,
              afterExpiry |-> FALSE,
              storeName |-> None, chatCreates |-> 0, chatErrors |-> <<>>,
              getError |-> NoErr]

IdleHistB == [creates |-> 0, calls |-> 0, deletes |-> 0, stale |-> {}, created |-> {},
              firstWaveCreated |-> {}, firstWaveReturned |-> {},
              sends |-> 0, lastSendExpired |-> FALSE]

IdleHistA == [keyChanges |-> 0, calls |-> 0, creates |-> 0, resetAfterFirst |-> FALSE,
              sends |-> 0, deleted |-> {}]

(***************************************************************************)
(* Idle values of each group, used by the specifications that do not       *)
(* exercise the group.                                                     *)
(***************************************************************************)
IdleR == rt = [pc |-> "off", retries |-> MAX_RETRIES, calls |-> 0,
               outcomes |-> <<>>, delays |-> <<>>, result |-> "", error |-> NoErr]
IdleA ==
  /\ userApiKey = None
  /\ currentChatSession = NoSession
  /\ fileSearchStorePromise = None
  /\ promises = <<>>
  /\ taskA = [t \in TasksA |-> IdleTaskA]
  /\ histA = IdleHistA
\* no batch has been submitted
NoBatch == [pc |-> "idle", n |-> 0, i |-> 0, started |-> {}, settled |-> {}, status |-> <<>>,
            addedTo |-> <<>>,
            refreshes |-> 0, refreshError |-> NoErr]
\* FileUploader has handled no selection
NoSelection == [pc |-> "idle", limit |-> MAX_FILE_SIZE, fileList |-> <<>>, i |-> 0,
                newFiles |-> <<>>, passed |-> <<>>, calls |-> 0]
IdleApp == app = NoBatch /\ uploader = NoSelection

IdleB ==
  /\ envApiKey = FALSE
  /\ activeStoreName = None
  /\ currentChat = NoChat
  /\ serverStores = {}
  /\ taskB = [t \in TasksB |-> IdleTaskB]
  /\ histB = IdleHistB

(***************************************************************************)
(* Variant A: the promise-memoized store (lines 24-130) and                *)
(* initializeChatSession (lines 270-293), its caller.                      *)
(***************************************************************************)
KeysA == {1, 2}
ErrorsA == {ApiError(500, "internal error"), PlainError("")}
ConfigErrorA == PlainError("API Key not set. Please provide your Google AI API key.")

\* ensureFileSearchStore(): the promise it returns, and the promises and the
\* memo after the call.  A new promise runs its async body up to the first
\* await: getAiClient() throws without a key (the promise is born rejected),
\* otherwise fileSearchStores.create is called (the promise is pending).
ensureFileSearchStore_NoMemo ==
  LET id == Len(promises) + 1 IN
  [p |-> id, memo |-> id, created |-> (userApiKey # None),
   promises |-> Append(promises,
      IF userApiKey = None
      THEN [state |-> "rejected", store |-> None, key |-> None, error |-> ConfigErrorA]
      ELSE [state |-> "pending", store |-> None, key |-> userApiKey, error |-> NoErr])]

ensureFileSearchStore ==
  IF fileSearchStorePromise # None
  THEN [p |-> fileSearchStorePromise, memo |-> fileSearchStorePromise,
        created |-> FALSE, promises |-> promises]
  ELSE LET id == Len(promises) + 1 IN
       [p |-> id, memo |-> id, created |-> (userApiKey # None),
        promises |-> Append(promises,
           IF userApiKey = None
           THEN [state |-> "rejected", store |-> None, key |-> None, error |-> ConfigErrorA]
           ELSE [state |-> "pending", store |-> None, key |-> userApiKey, error |-> NoErr])]

\* the catch block of the creation body: fileSearchStorePromise = null
MemoAfterCreationFailure_Kept == fileSearchStorePromise
MemoAfterCreationFailure == None

InitStoreA ==
  /\ variant = "A"
  /\ userApiKey = None
  /\ currentChatSession = NoSession
  /\ fileSearchStorePromise = None
  /\ promises = <<>>
  /\ taskA = [t \in TasksA |-> IdleTaskA]
  /\ histA = IdleHistA
  /\ IdleR /\ IdleB /\ IdleApp

\* setApiKey(apiKey)
setApiKey(k) ==
  /\ variant = "A"
  /\ histA.keyChanges < MaxKeyChanges
  /\ userApiKey' = k
  /\ currentChatSession' = NoSession
  /\ fileSearchStorePromise' = None
  /\ histA' = [histA EXCEPT !.keyChanges = @ + 1,
                            !.resetAfterFirst = @ \/ promises # <<>>]
  /\ UNCHANGED <<promises, taskA>>
  /\ UNCHANGED <<variant, varsR, varsB, app, uploader>>

\* clearApiKey()
clearApiKey ==
  /\ variant = "A"
  /\ histA.keyChanges < MaxKeyChanges
  /\ userApiKey' = None
  /\ currentChatSession' = NoSession
  /\ fileSearchStorePromise' = None
  /\ histA' = [histA EXCEPT !.keyChanges = @ + 1,
                            !.resetAfterFirst = @ \/ promises # <<>>]
  /\ UNCHANGED <<promises, taskA>>
  /\ UNCHANGED <<variant, varsR, varsB, app, uploader>>

\* initializeChatSession(), up to "await ensureFileSearchStore()": the call as
\* it stands when it suspends or throws, and the promises and the memo then
InitSessionA_Entry ==
  IF userApiKey = None
  THEN [task |-> [IdleTaskA EXCEPT !.pc = "rejected", !.op = "init", !.error = ConfigErrorA,
                                   !.keyless = TRUE],
        promises |-> promises, memo |-> fileSearchStorePromise, created |-> FALSE]
  ELSE LET r == ensureFileSearchStore IN
       [task |-> [IdleTaskA EXCEPT !.pc = "awaitStore", !.op = "init", !.ai = userApiKey,
                     !.changesAtCall = histA.keyChanges,
                     !.deletedAtCall = histA.deleted,
                     !.promise = r.p,
                     !.duringFirst = /\ ~histA.resetAfterFirst
                                     /\ (promises = <<>> \/ promises[1].state = "pending"),
                     !.joinedRejected = (r.promises[r.p].state = "rejected")],
        promises |-> r.promises, memo |-> r.memo, created |-> r.created]

\* initializeChatSession(), up to "await ensureFileSearchStore()"
InitSessionA_Call(t) ==
  /\ variant = "A"
  /\ taskA[t].pc = "idle"
  /\ histA.calls < MaxCallsA
  /\ LET e == InitSessionA_Entry IN
     /\ taskA' = [taskA EXCEPT ![t] = e.task]
     /\ promises' = e.promises
     /\ fileSearchStorePromise' = e.memo
     /\ histA' = [histA EXCEPT !.calls = @ + 1,
                               !.creates = @ + (IF e.created THEN 1 ELSE 0)]
  /\ UNCHANGED <<userApiKey, currentChatSession>>
  /\ UNCHANGED <<variant, varsR, varsB, app, uploader>>

\* fileSearchStores.create resolves: the creation body returns the store
CreateStoreResolves(p) ==
  /\ variant = "A"
  /\ p <= Len(promises)
  /\ promises[p].state = "pending"
  /\ promises' = [promises EXCEPT ![p].state = "fulfilled", ![p].store = p]
  /\ UNCHANGED <<userApiKey, currentChatSession, fileSearchStorePromise, taskA, histA>>
  /\ UNCHANGED <<variant, varsR, varsB, app, uploader>>

\* fileSearchStores.create rejects: the catch block clears the memo and rethrows
CreateStoreRejects(p) ==
  /\ variant = "A"
  /\ p <= Len(promises)
  /\ promises[p].state = "pending"
  /\ \E e \in ErrorsA :
       promises' = [promises EXCEPT ![p].state = "rejected", ![p].error = e]
  /\ fileSearchStorePromise' = MemoAfterCreationFailure
  /\ UNCHANGED <<userApiKey, currentChatSession, taskA, histA>>
  /\ UNCHANGED <<variant, varsR, varsB, app, uploader>>

\* "currentChatSession = ai.chats.create({... fileSearchStoreNames:
\* [store.name] ...})" (lines 277-292): the call once it has the store, and
\* the session it leaves in currentChatSession
InitSessionA_Resumed_Memoized(tk) ==
  IF currentChatSession # NoSession
  THEN [task |-> [tk EXCEPT !.pc = "done", !.store = promises[tk.promise].store],
        chat |-> currentChatSession]
  ELSE LET new == [store |-> promises[tk.promise].store, key |-> tk.ai,
                   changesAtCall |-> tk.changesAtCall]
       IN [task |-> [tk EXCEPT !.pc = "done", !.store = new.store,
                               !.session = new, !.sessions = @ + 1],
           chat |-> new]
InitSessionA_Resumed(tk) ==
  LET new == [store |-> promises[tk.promise].store, key |-> tk.ai,
              changesAtCall |-> tk.changesAtCall]
  IN [task |-> [tk EXCEPT !.pc = "done", !.store = new.store,
                          !.session = new, !.sessions = @ + 1],
      chat |-> new]

\* initializeChatSession() resumes with the store: ai.chats.create, return
InitSessionA_Resume(t) ==
  /\ taskA[t].op = "init"
  /\ taskA[t].pc = "awaitStore"
  /\ promises[taskA[t].promise].state = "fulfilled"
  /\ currentChatSession' = InitSessionA_Resumed(taskA[t]).chat
  /\ taskA' = [taskA EXCEPT ![t] = InitSessionA_Resumed(taskA[t]).task]
  /\ UNCHANGED <<userApiKey, fileSearchStorePromise, promises, histA>>
  /\ UNCHANGED <<variant, varsR, varsB, app, uploader>>

\* initializeChatSession() resumes with the rejection and rejects in turn
InitSessionA_Throws(t) ==
  /\ taskA[t].op = "init"
  /\ taskA[t].pc = "awaitStore"
  /\ promises[taskA[t].promise].state = "rejected"
  /\ taskA' = [taskA EXCEPT ![t].pc = "rejected",
                            ![t].error = promises[taskA[t].promise].error]
  /\ UNCHANGED <<userApiKey, currentChatSession, fileSearchStorePromise, promises, histA>>
  /\ UNCHANGED <<variant, varsR, varsB, app, uploader>>

\* the caller has taken the outcome; the task slot is free for another call
InitSessionA_Settled(t) ==
  /\ taskA[t].op = "init"
  /\ taskA[t].pc \in {"done", "rejected"}
  /\ histA.calls < MaxCallsA
  /\ taskA' = [taskA EXCEPT ![t] = IdleTaskA]
  /\ UNCHANGED <<userApiKey, currentChatSession, fileSearchStorePromise, promises, histA>>
  /\ UNCHANGED <<variant, varsR, varsB, app, uploader>>

NextStoreA ==
  \/ \E k \in KeysA : setApiKey(k)
  \/ clearApiKey
  \/ \E t \in TasksA : InitSessionA_Call(t)
  \/ \E p \in PromiseIds : CreateStoreResolves(p)
  \/ \E p \in PromiseIds : CreateStoreRejects(p)
  \/ \E t \in TasksA : InitSessionA_Resume(t)
  \/ \E t \in TasksA : InitSessionA_Throws(t)
  \/ \E t \in TasksA : InitSessionA_Settled(t)

SpecStoreA == InitStoreA /\ [][NextStoreA]_vars

FirstCreationCallers == {t \in TasksA : taskA[t].pc # "idle" /\ taskA[t].duringFirst}

\* C1: every initializeChatSession call that reaches ensureFileSearchStore
\* before the first store creation has completed (and before any credential
\* change resets the memo) joins that first creation: while it is pending
\* exactly one fileSearchStores.create call has been made, every such caller
\* awaits the same promise, and every one of them that has resolved holds the
\* store of that one creation.
C1_SingleFlightCreation ==
  /\ ( /\ promises # <<>>
       /\ promises[1].state = "pending"
       /\ ~histA.resetAfterFirst )
     => histA.creates = 1
  /\ \A t \in FirstCreationCallers :
       /\ taskA[t].promise = 1
       /\ taskA[t].pc = "done" => taskA[t].store = promises[1].store
  /\ \A t, u \in FirstCreationCallers :
       (taskA[t].pc = "done" /\ taskA[u].pc = "done") => taskA[t].store = taskA[u].store

C1_Witness ==
  /\ Cardinality(FirstCreationCallers) = NumTasksA
  /\ \A t \in TasksA : taskA[t].pc = "done" /\ taskA[t].store = 1
  /\ histA.creates = 1

\* C3: a store creation that failed is never left memoized: the memo is
\* either empty or a creation that is pending or has succeeded, so no call
\* is ever handed the failed creation, and a call that follows a failure
\* starts a creation of its own.
C3_FailedCreationCleared ==
  /\ fileSearchStorePromise # None
       => promises[fileSearchStorePromise].state # "rejected"
  /\ \A t \in TasksA : ~taskA[t].joinedRejected

C3_Witness ==
  /\ Len(promises) = 2
  /\ promises[1].state = "rejected"
  /\ fileSearchStorePromise = 2
  /\ histA.creates = 2
  /\ ~histA.resetAfterFirst

(***************************************************************************)
(* Variant A: uploadFileToGemini (lines 188-255).  The file document is    *)
(* freshly selected (FileUploader.handleFiles: status 'pending', no        *)
(* uploadUri); only whether it carries a fileHandle is an input.  The runs *)
(* of one batch follow one another on task 1 (handleAddFiles awaits each). *)
(***************************************************************************)
UploadErrorsA == {ApiError(500, "internal error"), PlainError("")}
NoHandleErrorA == PlainError("No file handle found for upload")
NoNameErrorA == PlainError("Upload failed: No resource name returned")

\* the catch block (lines 241-254): { ...fileDoc, status: 'error', error: error.message || "Upload failed" }
ErrorDocA(e) ==
  [status |-> "error", uploadUri |-> NoDoc.uploadUri,
   error |-> IF e.msg # "" THEN e.msg ELSE "Upload failed"]

\* the success return (lines 235-239): { ...fileDoc, uploadUri: uploadResult.name, status: 'active' }
ActiveDocA(uri) == [status |-> "active", uploadUri |-> uri, error |-> NoDoc.error]

InitUploadA ==
  /\ variant = "A"
  /\ userApiKey = None
  /\ currentChatSession = NoSession
  /\ fileSearchStorePromise = None
  /\ promises = <<>>
  /\ taskA = [t \in TasksA |-> IdleTaskA]
  /\ histA = IdleHistA
  /\ IdleR /\ IdleB /\ IdleApp

\* uploadFileToGemini(fileDoc) up to "await ensureFileSearchStore()": the call
\* as it stands when it suspends or throws, and the promises and the memo then
UploadA_Entry(hasHandle) ==
  IF ~hasHandle
  THEN [task |-> [IdleTaskA EXCEPT !.pc = "rejected", !.op = "upload", !.error = NoHandleErrorA,
                                   !.keyless = (userApiKey = None)],
        promises |-> promises, memo |-> fileSearchStorePromise, created |-> FALSE]
  ELSE IF userApiKey = None
  THEN [task |-> [IdleTaskA EXCEPT !.pc = "rejected", !.op = "upload", !.error = ConfigErrorA,
                                   !.keyless = TRUE],
        promises |-> promises, memo |-> fileSearchStorePromise, created |-> FALSE]
  ELSE LET r == ensureFileSearchStore IN
       [task |-> [IdleTaskA EXCEPT !.pc = "awaitStore", !.op = "upload", !.ai = userApiKey,
                                   !.deletedAtCall = histA.deleted,
                                   !.promise = r.p],
        promises |-> r.promises, memo |-> r.memo, created |-> r.created]

\* uploadFileToGemini(fileDoc) up to "await ensureFileSearchStore()"
UploadA_Call(t, hasHandle) ==
  /\ variant = "A"
  /\ taskA[t].pc = "idle"
  /\ histA.calls < MaxRunsA
  /\ LET e == UploadA_Entry(hasHandle) IN
     /\ taskA' = [taskA EXCEPT ![t] = e.task]
     /\ promises' = e.promises
     /\ fileSearchStorePromise' = e.memo
     /\ histA' = [histA EXCEPT !.calls = @ + 1,
                               !.creates = @ + (IF e.created THEN 1 ELSE 0)]
  /\ UNCHANGED <<userApiKey, currentChatSession>>
  /\ UNCHANGED <<variant, varsR, varsB, app, uploader>>

\* the store promise is fulfilled: ai.files.upload is called
UploadA_StoreReady(t) ==
  /\ variant = "A"
  /\ taskA[t].op = "upload"
  /\ taskA[t].pc = "awaitStore"
  /\ promises[taskA[t].promise].state = "fulfilled"
  /\ taskA' = [taskA EXCEPT ![t].pc = "awaitUpload",
                            ![t].store = promises[taskA[t].promise].store]
  /\ UNCHANGED <<userApiKey, currentChatSession, fileSearchStorePromise, promises, histA>>
  /\ UNCHANGED <<variant, varsR, varsB, app, uploader>>

\* the store promise is rejected: caught, the error document is returned
UploadA_StoreFailed(t) ==
  /\ variant = "A"
  /\ taskA[t].op = "upload"
  /\ taskA[t].pc = "awaitStore"
  /\ promises[taskA[t].promise].state = "rejected"
  /\ taskA' = [taskA EXCEPT ![t].pc = "returned",
                            ![t].error = promises[taskA[t].promise].error,
                            ![t].doc = ErrorDocA(promises[taskA[t].promise].error)]
  /\ UNCHANGED <<userApiKey, currentChatSession, fileSearchStorePromise, promises, histA>>
  /\ UNCHANGED <<variant, varsR, varsB, app, uploader>>

\* ai.files.upload resolves, with or without a resource name; with a name
\* importFile is called
UploadA_UploadResolves(t) ==
  /\ variant = "A"
  /\ taskA[t].pc = "awaitUpload"
  /\ \E name \in {None, histA.calls} :
       IF name = None
       THEN taskA' = [taskA EXCEPT ![t].pc = "returned", ![t].error = NoNameErrorA,
                                   ![t].failedAt = "upload",
                                   ![t].doc = ErrorDocA(NoNameErrorA)]
       ELSE taskA' = [taskA EXCEPT ![t].pc = "awaitImport", ![t].uri = name,
                                   ![t].imported = TRUE]
  /\ UNCHANGED <<userApiKey, currentChatSession, fileSearchStorePromise, promises, histA>>
  /\ UNCHANGED <<variant, varsR, varsB, app, uploader>>

\* ai.files.upload rejects
UploadA_UploadRejects(t) ==
  /\ variant = "A"
  /\ taskA[t].pc = "awaitUpload"
  /\ \E e \in UploadErrorsA :
       taskA' = [taskA EXCEPT ![t].pc = "returned", ![t].error = e,
                              ![t].failedAt = "upload", ![t].doc = ErrorDocA(e)]
  /\ UNCHANGED <<userApiKey, currentChatSession, fileSearchStorePromise, promises, histA>>
  /\ UNCHANGED <<variant, varsR, varsB, app, uploader>>

\* the continuation on an operation value (from importFile or operations.get):
\* while (!operation.done) poll again, otherwise return the active document
AfterOperation(tk, done, opError) ==
  IF done
  THEN [tk EXCEPT !.pc = "returned", !.opError = opError, !.doc = ActiveDocA(tk.uri)]
  ELSE [tk EXCEPT !.pc = "pollDelay"]

\* importFile resolves with the long-running operation
UploadA_ImportResolves(t) ==
  /\ variant = "A"
  /\ taskA[t].pc = "awaitImport"
  /\ \E done \in BOOLEAN, opError \in BOOLEAN :
       /\ opError => done
       /\ taskA' = [taskA EXCEPT ![t] = AfterOperation(@, done, opError)]
  /\ UNCHANGED <<userApiKey, currentChatSession, fileSearchStorePromise, promises, histA>>
  /\ UNCHANGED <<variant, varsR, varsB, app, uploader>>

\* importFile rejects
UploadA_ImportRejects(t) ==
  /\ variant = "A"
  /\ taskA[t].pc = "awaitImport"
  /\ \E e \in UploadErrorsA :
       taskA' = [taskA EXCEPT ![t].pc = "returned", ![t].error = e, ![t].doc = ErrorDocA(e)]
  /\ UNCHANGED <<userApiKey, currentChatSession, fileSearchStorePromise, promises, histA>>
  /\ UNCHANGED <<variant, varsR, varsB, app, uploader>>

\* delay(FILE_PROCESSING_POLL_INTERVAL) elapses: ai.operations.get is called
UploadA_PollDelayElapsed(t) ==
  /\ variant = "A"
  /\ taskA[t].pc = "pollDelay"
  /\ taskA[t].polls < MaxPolls
  /\ taskA' = [taskA EXCEPT ![t].pc = "pollGet", ![t].polls = @ + 1,
                            ![t].elapsed = @ + FILE_PROCESSING_POLL_INTERVAL]
  /\ UNCHANGED <<userApiKey, currentChatSession, fileSearchStorePromise, promises, histA>>
  /\ UNCHANGED <<variant, varsR, varsB, app, uploader>>

\* ai.operations.get resolves with the refreshed operation
UploadA_PollResolves(t) ==
  /\ variant = "A"
  /\ taskA[t].pc = "pollGet"
  /\ \E done \in BOOLEAN, opError \in BOOLEAN :
       /\ opError => done
       /\ taskA' = [taskA EXCEPT ![t] = AfterOperation(@, done, opError)]
  /\ UNCHANGED <<userApiKey, currentChatSession, fileSearchStorePromise, promises, histA>>
  /\ UNCHANGED <<variant, varsR, varsB, app, uploader>>

\* ai.operations.get rejects
UploadA_PollRejects(t) ==
  /\ variant = "A"
  /\ taskA[t].pc = "pollGet"
  /\ \E e \in UploadErrorsA :
       taskA' = [taskA EXCEPT ![t].pc = "returned", ![t].error = e, ![t].doc = ErrorDocA(e)]
  /\ UNCHANGED <<userApiKey, currentChatSession, fileSearchStorePromise, promises, histA>>
  /\ UNCHANGED <<variant, varsR, varsB, app, uploader>>

\* the caller (handleAddFiles) has taken the outcome and moves to the next file
UploadA_Settled(t) ==
  /\ variant = "A"
  /\ taskA[t].op = "upload"
  /\ taskA[t].pc \in {"returned", "rejected"}
  /\ histA.calls < MaxRunsA
  /\ taskA' = [taskA EXCEPT ![t] = IdleTaskA]
  /\ UNCHANGED <<userApiKey, currentChatSession, fileSearchStorePromise, promises, histA>>
  /\ UNCHANGED <<variant, varsR, varsB, app, uploader>>

NextUploadA ==
  \/ \E k \in KeysA : setApiKey(k)
  \/ clearApiKey
  \/ \E h \in BOOLEAN : UploadA_Call(1, h)
  \/ \E p \in PromiseIds : CreateStoreResolves(p)
  \/ \E p \in PromiseIds : CreateStoreRejects(p)
  \/ UploadA_StoreReady(1)
  \/ UploadA_StoreFailed(1)
  \/ UploadA_UploadResolves(1)
  \/ UploadA_UploadRejects(1)
  \/ UploadA_ImportResolves(1)
  \/ UploadA_ImportRejects(1)
  \/ UploadA_PollDelayElapsed(1)
  \/ UploadA_PollResolves(1)
  \/ UploadA_PollRejects(1)
  \/ UploadA_Settled(1)

SpecUploadA == InitUploadA /\ [][NextUploadA]_vars

\* The deadline C7 speaks of, in ms: the 120 second wall-clock timeout of
\* the pipeline's design.  The code sets no deadline of its own.
C7_Deadline == 120 * 1000

\* C7: while uploadFileToGemini polls the import operation, no more time
\* has gone by in the poll loop than the deadline plus one poll interval:
\* an operation that never reports done makes the run end by then.
C7_PollLoopEndsByDeadline ==
  \A t \in TasksA :
    taskA[t].pc \in {"pollDelay", "pollGet"}
    => taskA[t].elapsed <= C7_Deadline + FILE_PROCESSING_POLL_INTERVAL

(***************************************************************************)
(* Variant B: the name-cached store, getOrCreateStore (lines 423-447), and *)
(* initializeChatSession (lines 547-592), its caller.                      *)
(***************************************************************************)
ConfigErrorB == PlainError("API Key missing.")
GetErrors == {ApiError(500, "internal error")}
NotFound == ApiError(404, "not found")

InitStoreB ==
  /\ variant = "B"
  /\ envApiKey \in BOOLEAN
  /\ activeStoreName = None
  /\ currentChat = NoChat
  /\ serverStores = {}
  /\ taskB = [t \in TasksB |-> IdleTaskB]
  /\ histB = IdleHistB
  /\ IdleR /\ IdleA /\ IdleApp

\* getOrCreateStore's catch of the liveness check: activeStoreName = null
NameAfterLivenessFailure_Kept == activeStoreName
NameAfterLivenessFailure == None

\* getOrCreateStore() up to its first await: the liveness check of the cached
\* name, or the create call when nothing is cached
EnterGetOrCreateStore(tk) ==
  IF activeStoreName # None
  THEN [tk EXCEPT !.pc = "awaitGet", !.checking = activeStoreName]
  ELSE [tk EXCEPT !.pc = "awaitCreate", !.retries = MAX_RETRIES]

CreatesOnEntry == IF activeStoreName # None THEN 0 ELSE 1

\* the caller's continuation once getOrCreateStore has returned name n
\* (initializeChatSession: ai.chats.create bound to n, return -- chats.create
\*  builds the session object locally and returns;
\*  sendMessageStream: the same inside its initializeChatSession call, then
\*  withRetry(currentChat.sendMessageStream) on the new session;
\*  uploadFileToGemini: withRetry(createFile) into n)
StoreReturned(tk, n) ==
  CASE tk.op = "init" -> [tk EXCEPT !.pc = "done", !.store = n, !.sessions = @ + 1,
                                    !.session = [store |-> n], !.chatCreates = @ + 1]
    [] tk.op = "send" -> [tk EXCEPT !.pc = "awaitSend", !.store = n, !.retries = MAX_RETRIES,
                                    !.sessions = @ + 1, !.session = [store |-> n],
                                    !.dispatches = @ + 1]
    [] OTHER -> [tk EXCEPT !.pc = "awaitCreateFile", !.store = n, !.retries = MAX_RETRIES,
                           !.imported = TRUE]

ChatAfterStoreReturned_Memoized(tk, n) ==
  IF tk.op \in {"init", "send"} /\ currentChat = NoChat THEN [store |-> n] ELSE currentChat
ChatAfterStoreReturned(tk, n) ==
  IF tk.op \in {"init", "send"} THEN [store |-> n] ELSE currentChat

\* uploadFileToGemini's catch block (lines 521-526)
ErrorDocB(e) ==
  [status |-> "error", uploadUri |-> None,
   error |-> IF getErrorStatus(e) = 403 THEN "Permission denied. Check API key." ELSE e.msg]

\* the caller's continuation once getOrCreateStore has thrown e
\* (initializeChatSession rejects, and with it a sendMessageStream that
\*  awaits it outside its try; uploadFileToGemini returns the error document)
StoreThrew_Propagates(tk, e) == [tk EXCEPT !.pc = "rejected", !.error = e]

StoreThrew(tk, e) ==
  IF tk.op \in {"init", "send"}
  THEN [tk EXCEPT !.pc = "rejected", !.error = e]
  ELSE [tk EXCEPT !.pc = "returned", !.error = e, !.doc = ErrorDocB(e)]

\* initializeChatSession() with no storeName, up to "await getOrCreateStore()":
\* the call as it stands when it suspends or throws
InitSessionB_Entry ==
  IF ~envApiKey
  THEN [IdleTaskB EXCEPT !.pc = "rejected", !.op = "init", !.error = ConfigErrorB]
  ELSE EnterGetOrCreateStore([IdleTaskB EXCEPT !.op = "init",
          !.startedEmpty = (activeStoreName = None /\ histB.created = {})])

\* initializeChatSession() with no storeName, up to "await getOrCreateStore()"
InitSessionB_Call(t) ==
  /\ variant = "B"
  /\ taskB[t].pc = "idle"
  /\ histB.calls < MaxCallsB
  /\ envApiKey => histB.creates + CreatesOnEntry <= MaxCreatesB
  /\ taskB' = [taskB EXCEPT ![t] = InitSessionB_Entry]
  /\ histB' = [histB EXCEPT !.calls = @ + 1,
                            !.creates = @ + (IF envApiKey THEN CreatesOnEntry ELSE 0)]
  /\ UNCHANGED <<envApiKey, activeStoreName, currentChat, serverStores>>
  /\ UNCHANGED <<variant, varsR, varsA, app, uploader>>

\* fileSearchStores.get resolves: return activeStoreName
StoreGetResolves(t) ==
  /\ variant = "B"
  /\ taskB[t].pc = "awaitGet"
  /\ taskB[t].checking \in serverStores
  /\ taskB' = [taskB EXCEPT ![t] = StoreReturned(taskB[t], activeStoreName)]
  /\ currentChat' = ChatAfterStoreReturned(taskB[t], activeStoreName)
  /\ histB' = [histB EXCEPT !.firstWaveReturned =
                 IF taskB[t].startedEmpty THEN @ \cup {activeStoreName} ELSE @]
  /\ UNCHANGED <<envApiKey, activeStoreName, serverStores>>
  /\ UNCHANGED <<variant, varsR, varsA, app, uploader>>

\* fileSearchStores.get rejects (not found when the store is gone, or any
\* other failure): the cached name is dropped and a store is created
StoreGetRejects(t) ==
  /\ variant = "B"
  /\ taskB[t].pc = "awaitGet"
  /\ histB.creates < MaxCreatesB
  /\ \E e \in GetErrors \cup {NotFound} :
       /\ e = NotFound => taskB[t].checking \notin serverStores
       /\ taskB' = [taskB EXCEPT ![t] = [@ EXCEPT !.pc = "awaitCreate",
                        !.retries = MAX_RETRIES, !.staleSeen = taskB[t].checking,
                        !.getError = e]]
  /\ activeStoreName' = NameAfterLivenessFailure
  /\ histB' = [histB EXCEPT !.stale = @ \cup {taskB[t].checking}, !.creates = @ + 1]
  /\ UNCHANGED <<envApiKey, currentChat, serverStores>>
  /\ UNCHANGED <<variant, varsR, varsA, app, uploader>>

\* fileSearchStores.create resolves: activeStoreName = store.name; return it
StoreCreateResolves(t) ==
  /\ variant = "B"
  /\ taskB[t].pc = "awaitCreate"
  /\ LET n == Cardinality(histB.created) + 1 IN
     /\ serverStores' = serverStores \cup {n}
     /\ activeStoreName' = n
     /\ taskB' = [taskB EXCEPT ![t] = StoreReturned([@ EXCEPT !.createdOwn = n], n)]
     /\ currentChat' = ChatAfterStoreReturned(taskB[t], n)
     /\ histB' = [histB EXCEPT !.created = @ \cup {n},
                    !.firstWaveCreated = IF taskB[t].startedEmpty THEN @ \cup {n} ELSE @,
                    !.firstWaveReturned = IF taskB[t].startedEmpty THEN @ \cup {n} ELSE @]
  /\ UNCHANGED <<envApiKey>>
  /\ UNCHANGED <<variant, varsR, varsA, app, uploader>>

\* fileSearchStores.create rejects: withRetry backs off, or getOrCreateStore throws
StoreCreateRejects(t) ==
  /\ variant = "B"
  /\ taskB[t].pc = "awaitCreate"
  /\ \E e \in Errors :
       IF ShouldRetry(e, taskB[t].retries)
       THEN taskB' = [taskB EXCEPT ![t].pc = "backoffCreate"]
       ELSE taskB' = [taskB EXCEPT ![t] = StoreThrew(@, e)]
  /\ UNCHANGED <<envApiKey, activeStoreName, currentChat, serverStores, histB>>
  /\ UNCHANGED <<variant, varsR, varsA, app, uploader>>

\* withRetry's timer fires: fileSearchStores.create is called again
StoreCreateBackoffElapsed(t) ==
  /\ variant = "B"
  /\ taskB[t].pc = "backoffCreate"
  /\ histB.creates < MaxCreatesB
  /\ taskB' = [taskB EXCEPT ![t].pc = "awaitCreate", ![t].retries = @ - 1]
  /\ histB' = [histB EXCEPT !.creates = @ + 1]
  /\ UNCHANGED <<envApiKey, activeStoreName, currentChat, serverStores>>
  /\ UNCHANGED <<variant, varsR, varsA, app, uploader>>

\* the server loses a store (deleted out of band, or expired)
ServerLosesStore(n) ==
  /\ variant = "B"
  /\ n \in serverStores
  /\ histB.deletes < MaxDeletesB
  /\ serverStores' = serverStores \ {n}
  /\ histB' = [histB EXCEPT !.deletes = @ + 1]
  /\ UNCHANGED <<envApiKey, activeStoreName, currentChat, taskB>>
  /\ UNCHANGED <<variant, varsR, varsA, app, uploader>>

\* the caller has taken the outcome; the task slot is free for another call
InitSessionB_Settled(t) ==
  /\ variant = "B"
  /\ taskB[t].op = "init"
  /\ taskB[t].pc \in {"done", "rejected"}
  /\ histB.calls < MaxCallsB
  /\ taskB' = [taskB EXCEPT ![t] = IdleTaskB]
  /\ UNCHANGED <<envApiKey, activeStoreName, currentChat, serverStores, histB>>
  /\ UNCHANGED <<variant, varsR, varsA, app, uploader>>

StoreNames == 1..MaxCreatesB

NextStoreB ==
  \/ \E t \in TasksB : InitSessionB_Call(t)
  \/ \E t \in TasksB : StoreGetResolves(t)
  \/ \E t \in TasksB : StoreGetRejects(t)
  \/ \E t \in TasksB : StoreCreateResolves(t)
  \/ \E t \in TasksB : StoreCreateRejects(t)
  \/ \E t \in TasksB : StoreCreateBackoffElapsed(t)
  \/ \E n \in StoreNames : ServerLosesStore(n)
  \/ \E t \in TasksB : InitSessionB_Settled(t)

SpecStoreB == InitStoreB /\ [][NextStoreB]_vars

\* C2: the calls of getOrCreateStore issued while no store name is cached
\* and before any store creation has completed create one store between
\* them, and all of them return that one name.
C2_OneStoreForOverlappingCalls ==
  /\ Cardinality(histB.firstWaveCreated) <= 1
  /\ Cardinality(histB.firstWaveReturned) <= 1

\* C4: a name whose liveness check failed is never the cached name again,
\* and the call whose check failed returns, when it returns, the name of
\* the store it created itself after the failure, which is not the stale
\* name.
C4_StaleNameNeverReused ==
  /\ activeStoreName \notin histB.stale
  /\ \A t \in TasksB :
       (taskB[t].staleSeen # None /\ taskB[t].pc = "done")
       => /\ taskB[t].store # taskB[t].staleSeen
          /\ taskB[t].store = taskB[t].createdOwn
          /\ taskB[t].createdOwn \in histB.created

C4_Witness ==
  \E t \in TasksB :
    /\ taskB[t].pc = "done"
    /\ taskB[t].staleSeen = 1
    /\ 1 \notin serverStores
    /\ taskB[t].store = 2
    /\ activeStoreName = 2

(***************************************************************************)
(* Variant B: waitForFileActive (lines 452-471) and uploadFileToGemini     *)
(* (lines 476-527).  As in variant A the file document is freshly selected *)
(* and the runs of one batch follow one another on task 1.                 *)
(***************************************************************************)
NoHandleErrorB == PlainError("File content missing.")
NoUriErrorB == PlainError("Upload failed: No URI returned.")
ServerFailedError == PlainError("File processing failed on server.")
TimedOutError == PlainError("File processing timed out.")
FileStates == {"ACTIVE", "FAILED", "PROCESSING"}

\* the success return (lines 514-519)
ActiveDocB_NoUri(uri) == [status |-> "active", uploadUri |-> None, error |-> ""]
ActiveDocB(uri) == [status |-> "active", uploadUri |-> uri, error |-> ""]

InitUploadB ==
  /\ variant = "B"
  /\ envApiKey \in BOOLEAN
  /\ activeStoreName = None
  /\ currentChat = NoChat
  /\ serverStores = {}
  /\ taskB = [t \in TasksB |-> IdleTaskB]
  /\ histB = IdleHistB
  /\ IdleR /\ IdleA /\ IdleApp

\* uploadFileToGemini(fileDoc) up to the first "await": the call as it stands
\* when it suspends or throws
UploadB_Entry(hasHandle) ==
  IF ~hasHandle
  THEN [IdleTaskB EXCEPT !.pc = "rejected", !.op = "upload", !.error = NoHandleErrorB]
  ELSE IF ~envApiKey
  THEN [IdleTaskB EXCEPT !.pc = "rejected", !.op = "upload", !.error = ConfigErrorB]
  ELSE [IdleTaskB EXCEPT !.pc = "awaitUpload", !.op = "upload", !.retries = MAX_RETRIES]

\* uploadFileToGemini(fileDoc) up to the first "await" (withRetry(files.upload))
UploadB_Call(t, hasHandle) ==
  /\ variant = "B"
  /\ taskB[t].pc = "idle"
  /\ histB.calls < MaxRunsB
  /\ taskB' = [taskB EXCEPT ![t] = UploadB_Entry(hasHandle)]
  /\ histB' = [histB EXCEPT !.calls = @ + 1]
  /\ UNCHANGED <<envApiKey, activeStoreName, currentChat, serverStores>>
  /\ UNCHANGED <<variant, varsR, varsA, app, uploader>>

\* the upload step (lines 483-497) has thrown e: the catch block returns the
\* error document; createFile is not reached
AfterUploadFailedB_ImportsAnyway(tk, e) ==
  [tk EXCEPT !.pc = "returned", !.error = e, !.failedAt = "upload", !.imported = TRUE,
             !.doc = ErrorDocB(e)]
AfterUploadFailedB(tk, e) ==
  [tk EXCEPT !.pc = "returned", !.error = e, !.failedAt = "upload", !.doc = ErrorDocB(e)]

\* files.upload resolves, with or without a name; with a name
\* waitForFileActive starts and calls files.get
UploadB_UploadResolves(t) ==
  /\ variant = "B"
  /\ taskB[t].pc = "awaitUpload"
  /\ \E name \in {None, histB.calls} :
       IF name = None
       THEN taskB' = [taskB EXCEPT ![t] = AfterUploadFailedB(@, NoUriErrorB)]
       ELSE taskB' = [taskB EXCEPT ![t].pc = "awaitFileGet", ![t].uri = name, ![t].polls = 0]
  /\ UNCHANGED <<envApiKey, activeStoreName, currentChat, serverStores, histB>>
  /\ UNCHANGED <<variant, varsR, varsA, app, uploader>>

\* files.upload rejects: withRetry backs off, or the error document is returned
UploadB_UploadRejects(t) ==
  /\ variant = "B"
  /\ taskB[t].pc = "awaitUpload"
  /\ \E e \in Errors :
       IF ShouldRetry(e, taskB[t].retries)
       THEN taskB' = [taskB EXCEPT ![t].pc = "backoffUpload"]
       ELSE taskB' = [taskB EXCEPT ![t] = AfterUploadFailedB(@, e)]
  /\ UNCHANGED <<envApiKey, activeStoreName, currentChat, serverStores, histB>>
  /\ UNCHANGED <<variant, varsR, varsA, app, uploader>>

\* withRetry's timer fires: files.upload is called again
UploadB_UploadBackoffElapsed(t) ==
  /\ variant = "B"
  /\ taskB[t].pc = "backoffUpload"
  /\ taskB' = [taskB EXCEPT ![t].pc = "awaitUpload", ![t].retries = @ - 1]
  /\ UNCHANGED <<envApiKey, activeStoreName, currentChat, serverStores, histB>>
  /\ UNCHANGED <<variant, varsR, varsA, app, uploader>>

\* waitForFileActive: files.get resolves.  ACTIVE returns the file and
\* uploadFileToGemini goes on to getOrCreateStore; FAILED throws; any other
\* state sleeps.
UploadB_FileGetResolves(t) ==
  /\ variant = "B"
  /\ taskB[t].pc = "awaitFileGet"
  /\ \E st \in FileStates :
       /\ st = "ACTIVE" => histB.creates + CreatesOnEntry <= MaxCreatesB
       /\ taskB' = [taskB EXCEPT ![t] =
            CASE st = "ACTIVE" -> EnterGetOrCreateStore(
                                    [@ EXCEPT !.fileActive = TRUE, !.startedEmpty =
                                       (activeStoreName = None /\ histB.created = {})])
              [] st = "FAILED" -> [@ EXCEPT !.pc = "returned", !.error = ServerFailedError,
                                            !.everFailed = TRUE,
                                            !.doc = ErrorDocB(ServerFailedError)]
              [] OTHER -> [@ EXCEPT !.pc = "fileSleep"]]
       /\ histB' = [histB EXCEPT !.creates =
                      @ + (IF st = "ACTIVE" THEN CreatesOnEntry ELSE 0)]
  /\ UNCHANGED <<envApiKey, activeStoreName, currentChat, serverStores>>
  /\ UNCHANGED <<variant, varsR, varsA, app, uploader>>

\* waitForFileActive: files.get rejects.  A 404 sleeps; anything else is rethrown.
UploadB_FileGetRejects(t) ==
  /\ variant = "B"
  /\ taskB[t].pc = "awaitFileGet"
  /\ \E e \in Errors :
       IF getErrorStatus(e) # 404
       THEN taskB' = [taskB EXCEPT ![t].pc = "returned", ![t].error = e,
                                   ![t].everFailed = TRUE, ![t].doc = ErrorDocB(e)]
       ELSE taskB' = [taskB EXCEPT ![t].pc = "fileSleep"]
  /\ UNCHANGED <<envApiKey, activeStoreName, currentChat, serverStores, histB>>
  /\ UNCHANGED <<variant, varsR, varsA, app, uploader>>

\* waitForFileActive's loop bound: while (retries < maxRetries)
WaitLoopContinues_OffByMany(polls) == polls < maxRetries + 2
WaitLoopContinues(polls) == polls < maxRetries

\* waitForFileActive: the 2000 ms sleep ends, retries++; the loop polls
\* again or ends with the timeout error
UploadB_FileSleepElapsed(t) ==
  /\ variant = "B"
  /\ taskB[t].pc = "fileSleep"
  /\ taskB' = [taskB EXCEPT ![t] =
       IF WaitLoopContinues(@.polls + 1)
       THEN [@ EXCEPT !.pc = "awaitFileGet", !.polls = @ + 1]
       ELSE [@ EXCEPT !.pc = "returned", !.polls = @ + 1, !.error = TimedOutError,
                      !.doc = ErrorDocB(TimedOutError)]]
  /\ UNCHANGED <<envApiKey, activeStoreName, currentChat, serverStores, histB>>
  /\ UNCHANGED <<variant, varsR, varsA, app, uploader>>

\* fileSearchStores.createFile resolves: the active document is returned
UploadB_CreateFileResolves(t) ==
  /\ variant = "B"
  /\ taskB[t].pc = "awaitCreateFile"
  /\ taskB' = [taskB EXCEPT ![t].pc = "returned", ![t].doc = ActiveDocB(taskB[t].uri)]
  /\ UNCHANGED <<envApiKey, activeStoreName, currentChat, serverStores, histB>>
  /\ UNCHANGED <<variant, varsR, varsA, app, uploader>>

\* fileSearchStores.createFile rejects: withRetry backs off, or the error
\* document is returned
UploadB_CreateFileRejects(t) ==
  /\ variant = "B"
  /\ taskB[t].pc = "awaitCreateFile"
  /\ \E e \in Errors :
       IF ShouldRetry(e, taskB[t].retries)
       THEN taskB' = [taskB EXCEPT ![t].pc = "backoffCreateFile"]
       ELSE taskB' = [taskB EXCEPT ![t].pc = "returned", ![t].error = e,
                                   ![t].doc = ErrorDocB(e)]
  /\ UNCHANGED <<envApiKey, activeStoreName, currentChat, serverStores, histB>>
  /\ UNCHANGED <<variant, varsR, varsA, app, uploader>>

\* withRetry's timer fires: createFile is called again
UploadB_CreateFileBackoffElapsed(t) ==
  /\ variant = "B"
  /\ taskB[t].pc = "backoffCreateFile"
  /\ taskB' = [taskB EXCEPT ![t].pc = "awaitCreateFile", ![t].retries = @ - 1]
  /\ UNCHANGED <<envApiKey, activeStoreName, currentChat, serverStores, histB>>
  /\ UNCHANGED <<variant, varsR, varsA, app, uploader>>

\* the caller (handleAddFiles) has taken the outcome and moves to the next file
UploadB_Settled(t) ==
  /\ variant = "B"
  /\ taskB[t].op = "upload"
  /\ taskB[t].pc \in {"returned", "rejected"}
  /\ histB.calls < MaxRunsB
  /\ taskB' = [taskB EXCEPT ![t] = IdleTaskB]
  /\ UNCHANGED <<envApiKey, activeStoreName, currentChat, serverStores, histB>>
  /\ UNCHANGED <<variant, varsR, varsA, app, uploader>>

NextUploadB ==
  \/ \E h \in BOOLEAN : UploadB_Call(1, h)
  \/ UploadB_UploadResolves(1)
  \/ UploadB_UploadRejects(1)
  \/ UploadB_UploadBackoffElapsed(1)
  \/ UploadB_FileGetResolves(1)
  \/ UploadB_FileGetRejects(1)
  \/ UploadB_FileSleepElapsed(1)
  \/ StoreGetResolves(1)
  \/ StoreGetRejects(1)
  \/ StoreCreateResolves(1)
  \/ StoreCreateRejects(1)
  \/ StoreCreateBackoffElapsed(1)
  \/ \E n \in StoreNames : ServerLosesStore(n)
  \/ UploadB_CreateFileResolves(1)
  \/ UploadB_CreateFileRejects(1)
  \/ UploadB_CreateFileBackoffElapsed(1)
  \/ UploadB_Settled(1)

SpecUploadB == InitUploadB /\ [][NextUploadB]_vars

(***************************************************************************)
(* uploadFileToGemini, either variant                                      *)
(***************************************************************************)
InitUpload == InitUploadA \/ InitUploadB

NextUpload == NextUploadA \/ NextUploadB

SpecUpload == InitUpload /\ [][NextUpload]_vars

UploadsA == {t \in TasksA : taskA[t].op = "upload"}
UploadsB == {t \in TasksB : taskB[t].op = "upload"}

\* C5 as stated: uploadFileToGemini never rejects, whatever the document
\* and whatever fails.
C5_NeverRejects ==
  /\ \A t \in UploadsA : taskA[t].pc # "rejected"
  /\ \A t \in UploadsB : taskB[t].pc # "rejected"

\* C5 as amended: uploadFileToGemini rejects only on the two checks made
\* before its try block (no file handle, no credential), before any
\* collaborator has been called; every failure of a collaborator (store
\* creation, upload, wait, import, polling) is returned as a document with
\* status 'error' that carries the failure's message (variant A puts
\* "Upload failed" for an empty message, variant B puts the permission text
\* for status 403).
C5_RejectsOnlyBeforeTry ==
  /\ \A t \in UploadsA :
       /\ taskA[t].pc = "rejected"
            => /\ taskA[t].error \in {NoHandleErrorA, ConfigErrorA}
               /\ taskA[t].promise = None /\ taskA[t].uri = None
       /\ (taskA[t].pc = "returned" /\ taskA[t].error # NoErr)
            => /\ taskA[t].doc.status = "error"
               /\ taskA[t].doc.error # ""
               /\ taskA[t].doc.error \in {taskA[t].error.msg, "Upload failed"}
  /\ \A t \in UploadsB :
       /\ taskB[t].pc = "rejected"
            => /\ taskB[t].error \in {NoHandleErrorB, ConfigErrorB}
               /\ taskB[t].uri = None /\ taskB[t].createdOwn = None
       /\ (taskB[t].pc = "returned" /\ taskB[t].error # NoErr)
            => /\ taskB[t].doc.status = "error"
               /\ taskB[t].doc.error \in {taskB[t].error.msg, "Permission denied. Check API key."}

C5_Witness ==
  \E t \in UploadsB :
    /\ taskB[t].pc = "returned"
    /\ taskB[t].uri # None
    /\ taskB[t].fileActive
    /\ taskB[t].createdOwn = None
    /\ taskB[t].error = ApiError(403, "forbidden")
    /\ taskB[t].doc.status = "error"

\* C6: a returned document has status 'active' and a non-empty uploadUri
\* when the run succeeded, and status 'error' and an empty uploadUri when a
\* step failed; a step fails when a collaborator rejects or when the import
\* operation completes with an error payload.
C6_StatusMatchesOutcome ==
  /\ \A t \in UploadsA :
       taskA[t].pc = "returned"
       => IF taskA[t].error = NoErr /\ ~taskA[t].opError
          THEN taskA[t].doc.status = "active" /\ taskA[t].doc.uploadUri # None
          ELSE taskA[t].doc.status = "error" /\ taskA[t].doc.uploadUri = None
  /\ \A t \in UploadsB :
       taskB[t].pc = "returned"
       => IF taskB[t].error = NoErr
          THEN taskB[t].doc.status = "active" /\ taskB[t].doc.uploadUri # None
          ELSE taskB[t].doc.status = "error" /\ taskB[t].doc.uploadUri = None

Ok(v) == [ok |-> TRUE, value |-> v, err |-> NoErr]
Fail(e) == [ok |-> FALSE, value |-> "", err |-> e]
Outcomes == {Ok(v) : v \in Values} \cup {Fail(e) : e \in Errors}

InitRetry ==
  /\ variant = "retry"
  /\ rt = [pc |-> "call", retries |-> MAX_RETRIES, calls |-> 0,
           outcomes |-> <<>>, delays |-> <<>>, result |-> "", error |-> NoErr]
  /\ IdleA /\ IdleB /\ IdleApp

\* return await fn()
RetryFnResolves ==
  /\ variant = "retry"
  /\ rt.pc = "call"
  /\ rt.calls < MaxInvocations
  /\ \E v \in Values :
       rt' = [rt EXCEPT !.pc = "returned", !.calls = @ + 1,
                        !.outcomes = Append(@, Ok(v)), !.result = v]
  /\ UNCHANGED <<variant, varsA, varsB, app, uploader>>

\* catch (error): retry after a delay, or throw error
RetryFnRejects ==
  /\ variant = "retry"
  /\ rt.pc = "call"
  /\ rt.calls < MaxInvocations
  /\ \E e \in Errors :
       IF ShouldRetry(e, rt.retries)
       THEN rt' = [rt EXCEPT !.pc = "backoff", !.calls = @ + 1,
                             !.outcomes = Append(@, Fail(e)),
                             !.delays = Append(@, RetryDelay(rt.retries))]
       ELSE rt' = [rt EXCEPT !.pc = "thrown", !.calls = @ + 1,
                             !.outcomes = Append(@, Fail(e)), !.error = e]
  /\ UNCHANGED <<variant, varsA, varsB, app, uploader>>

\* the setTimeout fires: return withRetry(fn, retries - 1)
RetryBackoffElapsed ==
  /\ variant = "retry"
  /\ rt.pc = "backoff"
  /\ rt' = [rt EXCEPT !.pc = "call", !.retries = @ - 1]
  /\ UNCHANGED <<variant, varsA, varsB, app, uploader>>

NextRetry == RetryFnResolves \/ RetryFnRejects \/ RetryBackoffElapsed

SpecRetry == InitRetry /\ [][NextRetry]_vars

\* The claims' own classification of an outcome: transient is status 429 or
\* 5xx, read from the first numeric field among status, code, error.code,
\* error.status; everything else, an error without a status included, is
\* permanent.
StatusOf(e) ==
  CHOOSE s \in {e.status, e.code, e.ecode, e.estatus, 0} :
    \/ s = e.status /\ s # NoNum
    \/ e.status = NoNum /\ s = e.code /\ s # NoNum
    \/ e.status = NoNum /\ e.code = NoNum /\ s = e.ecode /\ s # NoNum
    \/ e.status = NoNum /\ e.code = NoNum /\ e.ecode = NoNum /\ s = e.estatus /\ s # NoNum
    \/ e.status = NoNum /\ e.code = NoNum /\ e.ecode = NoNum /\ e.estatus = NoNum /\ s = 0
TransientOutcome(o) == ~o.ok /\ (StatusOf(o.err) = 429 \/ StatusOf(o.err) \in 500..599)
PermanentOutcome(o) == ~o.ok /\ ~(StatusOf(o.err) = 429 \/ StatusOf(o.err) \in 500..599)

\* C9: an operation that fails twice with a transient error and then
\* succeeds is invoked exactly three times: after the second failure
\* withRetry is in its backoff or about to invoke it again (it has not given
\* up), and when
\* the third invocation succeeds withRetry returns that invocation's value
\* after exactly three invocations and two backoff delays.
C9_TwoTransientThenSuccess ==
  /\ ( /\ Len(rt.outcomes) = 2
       /\ TransientOutcome(rt.outcomes[1])
       /\ TransientOutcome(rt.outcomes[2]) )
     => rt.pc \in {"backoff", "call"} /\ rt.calls = 2
  /\ ( /\ Len(rt.outcomes) >= 3
       /\ TransientOutcome(rt.outcomes[1])
       /\ TransientOutcome(rt.outcomes[2])
       /\ rt.outcomes[3].ok )
     => /\ rt.pc = "returned"
        /\ rt.calls = 3
        /\ Len(rt.outcomes) = 3
        /\ rt.result = rt.outcomes[3].value
        /\ Len(rt.delays) = 2

C9_Witness ==
  /\ rt.pc = "returned"
  /\ rt.calls = 3
  /\ TransientOutcome(rt.outcomes[1])
  /\ TransientOutcome(rt.outcomes[2])
  /\ rt.result = "v2"

\* C10: an operation whose first failure is a permanent error (status
\* neither 429 nor 5xx-class, or no status at all) is invoked exactly once:
\* withRetry throws that same error with no delay and no retry.  More
\* generally, a permanent error at any invocation ends the run with that
\* error and is never followed by a delay.
C10_PermanentNotRetried ==
  /\ ( Len(rt.outcomes) >= 1 /\ PermanentOutcome(rt.outcomes[1]) )
     => /\ rt.pc = "thrown"
        /\ rt.calls = 1
        /\ Len(rt.outcomes) = 1
        /\ rt.error = rt.outcomes[1].err
        /\ rt.delays = <<>>
  /\ \A i \in 1..Len(rt.outcomes) :
       PermanentOutcome(rt.outcomes[i])
       => /\ i = Len(rt.outcomes)
          /\ rt.pc = "thrown"
          /\ rt.error = rt.outcomes[i].err
          /\ Len(rt.delays) = i - 1

C10_Witness ==
  /\ rt.pc = "thrown"
  /\ rt.calls = 1
  /\ rt.error = PlainError("network error")

\* C11: withRetry never invokes the operation more than MAX_RETRIES + 1 = 4
\* times, whatever the outcomes; it waits for a retry only after fewer than
\* four invocations; and when every invocation fails with a transient error
\* the run ends at the fourth invocation by throwing the error of that
\* fourth invocation, unchanged.
C11_BoundedRetries ==
  /\ rt.calls <= MAX_RETRIES + 1
  /\ rt.pc = "backoff" => rt.calls <= MAX_RETRIES
  /\ ( /\ Len(rt.outcomes) = MAX_RETRIES + 1
       /\ \A i \in 1..Len(rt.outcomes) : TransientOutcome(rt.outcomes[i]) )
     => /\ rt.pc = "thrown"
        /\ rt.error = rt.outcomes[MAX_RETRIES + 1].err
        /\ Len(rt.delays) = MAX_RETRIES

C11_Witness ==
  /\ rt.pc = "thrown"
  /\ rt.calls = 4
  /\ \A i \in 1..4 : TransientOutcome(rt.outcomes[i])
  /\ rt.outcomes[1].err = ApiError(429, "rate limited")
  /\ rt.error = ApiError(500, "internal error")
  /\ rt.delays = <<1000, 2000, 4000>>

(***************************************************************************)
(* uploadFileToGemini: the upload and import steps                         *)
(***************************************************************************)
\* C18 as stated: when the upload step fails (files.upload rejects, in
\* variant B after withRetry has given up, or answers without a resource
\* name) the import step is never called and the returned document has
\* status 'error' and, as its error text, the message of the error the step
\* failed with.
C18_UploadFailureCarriesMessage ==
  /\ \A t \in UploadsA :
       taskA[t].failedAt = "upload"
       => /\ ~taskA[t].imported
          /\ taskA[t].doc.status = "error"
          /\ taskA[t].doc.error = taskA[t].error.msg
  /\ \A t \in UploadsB :
       taskB[t].failedAt = "upload"
       => /\ ~taskB[t].imported
          /\ taskB[t].doc.status = "error"
          /\ taskB[t].doc.error = taskB[t].error.msg

\* The claims' own reading of a 403-class error (first numeric field among
\* status, code, error.code, error.status)
Is403(e) == StatusOf(e) = 403

\* C18 as amended: when the upload step fails the import step is never
\* called, no store is resolved after the failure, and the returned document
\* has status 'error' and no uploadUri.  Its error text is the message of the
\* error the step failed with, with two substitutions: variant B puts
\* 'Permission denied. Check API key.' for a 403-class error, and variant A
\* puts 'Upload failed' for an error whose message is empty.
C18_UploadFailureNeverImports ==
  /\ \A t \in UploadsA :
       taskA[t].failedAt = "upload"
       => /\ taskA[t].pc = "returned"
          /\ ~taskA[t].imported
          /\ taskA[t].doc.status = "error"
          /\ taskA[t].doc.uploadUri = None
          /\ taskA[t].doc.error =
               (IF taskA[t].error.msg = "" THEN "Upload failed" ELSE taskA[t].error.msg)
  /\ \A t \in UploadsB :
       taskB[t].failedAt = "upload"
       => /\ taskB[t].pc = "returned"
          /\ ~taskB[t].imported
          /\ taskB[t].store = None
          /\ taskB[t].doc.status = "error"
          /\ taskB[t].doc.uploadUri = None
          /\ taskB[t].doc.error =
               (IF Is403(taskB[t].error) THEN "Permission denied. Check API key."
                ELSE taskB[t].error.msg)

C18_Witness ==
  \E t \in UploadsB :
    /\ taskB[t].failedAt = "upload"
    /\ taskB[t].retries = 0
    /\ taskB[t].error = MkErr(NoNum, 503, NoNum, NoNum, "unavailable")
    /\ taskB[t].doc.error = "unavailable"
    /\ ~taskB[t].imported

\* C19: when the import operation completes (done = true) carrying an error
\* payload, uploadFileToGemini returns status 'error' with the payload's
\* message, never status 'active'.  (The payload's message is not read by
\* the code, so the formula only asks for status 'error' and an error text.)
C19_OperationErrorFails ==
  \A t \in UploadsA :
    (taskA[t].pc = "returned" /\ taskA[t].opError)
    => /\ taskA[t].doc.status = "error"
       /\ taskA[t].doc.status # "active"
       /\ taskA[t].doc.error # ""

(***************************************************************************)
(* sendMessageStream.  A response fragment carries a text ("" when the     *)
(* chunk has none) and may carry grounding metadata; fullText is kept as   *)
(* the sequence of the non-empty texts appended to it.                     *)
(***************************************************************************)
Fragments ==
  { [text |-> "", meta |-> FALSE], [text |-> "", meta |-> TRUE],
    [text |-> "a", meta |-> FALSE], [text |-> "b", meta |-> TRUE] }

\* the errors a stream may throw while it is consumed: not found, transient,
\* permanent, and without a status
StreamErrors ==
  { ApiError(404, "not found"), ApiError(500, "internal error"),
    ApiError(400, "bad request"), PlainError("network error") }

\* fullText += text
Accumulate_Overwrite(full, text) == IF text = "" THEN full ELSE <<text>>
Accumulate(full, text) == IF text = "" THEN full ELSE Append(full, text)

\* onChunk(text, meta) for the i-th fragment of the stream
OnChunkCall(i, text, meta) == [idx |-> i, text |-> text, meta |-> meta]

(***************************************************************************)
(* Variant B: sendMessageStream (lines 597-628).  One call at a time runs, *)
(* on task 1 (handleSendMessage sends one message at a time); between the  *)
(* sends initializeChatSession may be called (clearChat, a batch ending).  *)
(***************************************************************************)
SessionExpiredError ==
  PlainError("Session context expired. Please try sending your message again.")
NullChatError == PlainError("Cannot read properties of null (reading 'sendMessageStream')")

\* the catch block (lines 617-627): what it throws
SendCatchThrows_AlwaysExpired(e) == SessionExpiredError
SendCatchThrows(e) == IF getErrorStatus(e) = 404 THEN SessionExpiredError ELSE e

\* the catch block: currentChat after it
ChatAfterSendCatch_Kept(e) == currentChat
ChatAfterSendCatch(e) == IF getErrorStatus(e) = 404 THEN NoChat ELSE currentChat

\* the catch block: activeStoreName after it
StoreNameAfterSendCatch(e) == IF getErrorStatus(e) = 404 THEN None ELSE activeStoreName

\* the call after its catch block has handled e: it rejects
AfterSendCaught_Redispatch(tk, e) ==
  IF tk.opened /\ isTransient(getErrorStatus(e)) /\ tk.dispatches < MAX_RETRIES + 1
  THEN [tk EXCEPT !.pc = "awaitSend", !.dispatches = @ + 1, !.raised = e,
                  !.midStream = tk.opened]
  ELSE [tk EXCEPT !.pc = "rejected", !.error = SendCatchThrows(e), !.raised = e,
                  !.midStream = tk.opened, !.chatBefore = currentChat,
                  !.chatAfter = ChatAfterSendCatch(e),
                  !.nameAfter = StoreNameAfterSendCatch(e)]
AfterSendCaught_PartialSuccess(tk, e) ==
  IF tk.opened
  THEN [tk EXCEPT !.pc = "done", !.result = tk.fullText, !.raised = e,
                  !.midStream = tk.opened, !.chatBefore = currentChat,
                  !.chatAfter = ChatAfterSendCatch(e),
                  !.nameAfter = StoreNameAfterSendCatch(e)]
  ELSE [tk EXCEPT !.pc = "rejected", !.error = SendCatchThrows(e), !.raised = e,
                  !.midStream = tk.opened, !.chatBefore = currentChat,
                  !.chatAfter = ChatAfterSendCatch(e),
                  !.nameAfter = StoreNameAfterSendCatch(e)]
AfterSendCaught(tk, e) ==
  [tk EXCEPT !.pc = "rejected", !.error = SendCatchThrows(e), !.raised = e,
             !.midStream = tk.opened, !.chatBefore = currentChat,
             !.chatAfter = ChatAfterSendCatch(e),
             !.nameAfter = StoreNameAfterSendCatch(e)]

InitSendB ==
  /\ variant = "B"
  /\ envApiKey \in BOOLEAN
  /\ activeStoreName = None
  /\ currentChat = NoChat
  /\ serverStores = {}
  /\ taskB = [t \in TasksB |-> IdleTaskB]
  /\ histB = IdleHistB
  /\ IdleR /\ IdleA /\ IdleApp

\* sendMessageStream(message, onChunk) up to its first await: the
\* initializeChatSession call when no session is cached, otherwise
\* withRetry(currentChat.sendMessageStream)
SendB_Call(t) ==
  /\ variant = "B"
  /\ taskB[t].pc = "idle"
  /\ histB.sends < MaxSendsB
  /\ IF currentChat # NoChat
     THEN /\ taskB' = [taskB EXCEPT ![t] =
               [IdleTaskB EXCEPT !.op = "send", !.pc = "awaitSend", !.retries = MAX_RETRIES,
                                 !.session = currentChat, !.dispatches = 1]]
          /\ histB' = [histB EXCEPT !.sends = @ + 1]
     ELSE IF ~envApiKey
     THEN /\ taskB' = [taskB EXCEPT ![t] =
               [IdleTaskB EXCEPT !.op = "send", !.pc = "rejected", !.error = ConfigErrorB,
                                 !.afterExpiry = histB.lastSendExpired]]
          /\ histB' = [histB EXCEPT !.sends = @ + 1]
     ELSE /\ histB.creates + CreatesOnEntry <= MaxCreatesB
          /\ taskB' = [taskB EXCEPT ![t] =
               EnterGetOrCreateStore([IdleTaskB EXCEPT !.op = "send",
                  !.afterExpiry = histB.lastSendExpired,
                  !.startedEmpty = (activeStoreName = None /\ histB.created = {})])]
          /\ histB' = [histB EXCEPT !.sends = @ + 1, !.creates = @ + CreatesOnEntry]
  /\ UNCHANGED <<envApiKey, activeStoreName, currentChat, serverStores>>
  /\ UNCHANGED <<variant, varsR, varsA, app, uploader>>

\* currentChat.sendMessageStream resolves: the stream is open
SendB_SendResolves(t) ==
  /\ variant = "B"
  /\ taskB[t].pc = "awaitSend"
  /\ taskB' = [taskB EXCEPT ![t].pc = "streaming", ![t].opened = TRUE,
                            ![t].openedAt = taskB[t].dispatches]
  /\ UNCHANGED <<envApiKey, activeStoreName, currentChat, serverStores, histB>>
  /\ UNCHANGED <<variant, varsR, varsA, app, uploader>>

\* currentChat.sendMessageStream rejects: withRetry backs off, or throws into
\* the catch block
SendB_SendRejects(t) ==
  /\ variant = "B"
  /\ taskB[t].pc = "awaitSend"
  /\ \E e \in Errors :
       IF ShouldRetry(e, taskB[t].retries)
       THEN /\ taskB' = [taskB EXCEPT ![t].pc = "backoffSend"]
            /\ UNCHANGED <<activeStoreName, currentChat, histB>>
       ELSE /\ taskB' = [taskB EXCEPT ![t] = AfterSendCaught(@, e)]
            /\ currentChat' = ChatAfterSendCatch(e)
            /\ activeStoreName' = StoreNameAfterSendCatch(e)
            /\ histB' = [histB EXCEPT !.lastSendExpired = (getErrorStatus(e) = 404)]
  /\ UNCHANGED <<envApiKey, serverStores>>
  /\ UNCHANGED <<variant, varsR, varsA, app, uploader>>

\* withRetry's timer fires: the closure reads currentChat and calls
\* sendMessageStream on it again
SendB_BackoffElapsed(t) ==
  /\ variant = "B"
  /\ taskB[t].pc = "backoffSend"
  /\ IF currentChat = NoChat
     THEN /\ taskB' = [taskB EXCEPT ![t] = AfterSendCaught(@, NullChatError)]
          /\ histB' = [histB EXCEPT !.lastSendExpired = FALSE]
     ELSE /\ taskB' = [taskB EXCEPT ![t].pc = "awaitSend", ![t].retries = @ - 1,
                                    ![t].dispatches = @ + 1, ![t].session = currentChat]
          /\ UNCHANGED histB
  /\ UNCHANGED <<envApiKey, activeStoreName, currentChat, serverStores>>
  /\ UNCHANGED <<variant, varsR, varsA, app, uploader>>

\* the stream yields a fragment: fullText += text; onChunk(text, meta)
SendB_ChunkArrives(t) ==
  /\ variant = "B"
  /\ taskB[t].pc = "streaming"
  /\ Len(taskB[t].fragments) < MaxChunks
  /\ \E f \in Fragments :
       taskB' = [taskB EXCEPT ![t].fragments = Append(@, f),
                   ![t].fullText = Accumulate(@, f.text),
                   ![t].delivered =
                      Append(@, OnChunkCall(Len(taskB[t].fragments) + 1, f.text, f.meta))]
  /\ UNCHANGED <<envApiKey, activeStoreName, currentChat, serverStores, histB>>
  /\ UNCHANGED <<variant, varsR, varsA, app, uploader>>

\* the stream ends: return fullText
SendB_StreamEnds(t) ==
  /\ variant = "B"
  /\ taskB[t].pc = "streaming"
  /\ taskB' = [taskB EXCEPT ![t].pc = "done", ![t].result = taskB[t].fullText]
  /\ histB' = [histB EXCEPT !.lastSendExpired = FALSE]
  /\ UNCHANGED <<envApiKey, activeStoreName, currentChat, serverStores>>
  /\ UNCHANGED <<variant, varsR, varsA, app, uploader>>

\* the stream throws while it is consumed: the catch block
SendB_StreamThrows(t) ==
  /\ variant = "B"
  /\ taskB[t].pc = "streaming"
  /\ \E e \in StreamErrors :
       /\ taskB' = [taskB EXCEPT ![t] = AfterSendCaught(@, e)]
       /\ currentChat' = ChatAfterSendCatch(e)
       /\ activeStoreName' = StoreNameAfterSendCatch(e)
       /\ histB' = [histB EXCEPT !.lastSendExpired = (getErrorStatus(e) = 404)]
  /\ UNCHANGED <<envApiKey, serverStores>>
  /\ UNCHANGED <<variant, varsR, varsA, app, uploader>>

\* the caller (handleSendMessage) has taken the outcome; the next message
\* can be sent
SendB_Settled(t) ==
  /\ variant = "B"
  /\ taskB[t].op = "send"
  /\ taskB[t].pc \in {"done", "rejected"}
  /\ histB.sends < MaxSendsB
  /\ taskB' = [taskB EXCEPT ![t] = IdleTaskB]
  /\ UNCHANGED <<envApiKey, activeStoreName, currentChat, serverStores, histB>>
  /\ UNCHANGED <<variant, varsR, varsA, app, uploader>>

NextSendB ==
  \/ SendB_Call(1)
  \/ SendB_SendResolves(1)
  \/ SendB_SendRejects(1)
  \/ SendB_BackoffElapsed(1)
  \/ SendB_ChunkArrives(1)
  \/ SendB_StreamEnds(1)
  \/ SendB_StreamThrows(1)
  \/ SendB_Settled(1)
  \/ InitSessionB_Call(1)
  \/ InitSessionB_Settled(1)
  \/ StoreGetResolves(1)
  \/ StoreGetRejects(1)
  \/ StoreCreateResolves(1)
  \/ StoreCreateRejects(1)
  \/ StoreCreateBackoffElapsed(1)

SpecSendB == InitSendB /\ [][NextSendB]_vars

(***************************************************************************)
(* Variant A: sendMessageStream (lines 320-359).  The whole body is in one *)
(* try block whose catch logs and rethrows; there is no retry.  One call   *)
(* at a time runs, on task 1.                                              *)
(***************************************************************************)
SendErrorsA == StreamErrors \cup {PlainError("")}

\* the call after its catch block (lines 355-358) has handled e: throw error
AfterSendCaughtA(tk, e) ==
  [tk EXCEPT !.pc = "rejected", !.error = e, !.raised = e, !.midStream = tk.opened,
             !.chatBefore = currentChatSession, !.chatAfter = currentChatSession]

\* if (text || metadata): the fragment is passed to onChunk
PassedToOnChunkA(f) == f.text # "" \/ f.meta

InitSendA ==
  /\ variant = "A"
  /\ userApiKey = None
  /\ currentChatSession = NoSession
  /\ fileSearchStorePromise = None
  /\ promises = <<>>
  /\ taskA = [t \in TasksA |-> IdleTaskA]
  /\ histA = IdleHistA
  /\ IdleR /\ IdleB /\ IdleApp

\* sendMessageStream(message, onChunk) up to its first await: the
\* initializeChatSession call when no session is cached (getAiClient, then
\* "await ensureFileSearchStore()"), otherwise currentChatSession.sendMessageStream
SendA_Call(t) ==
  /\ variant = "A"
  /\ taskA[t].pc = "idle"
  /\ histA.sends < MaxSendsA
  /\ IF currentChatSession # NoSession
     THEN /\ taskA' = [taskA EXCEPT ![t] =
               [IdleTaskA EXCEPT !.op = "send", !.pc = "awaitSend", !.dispatches = 1,
                                 !.keyless = (userApiKey = None),
                                 !.changesAtCall = histA.keyChanges,
                                 !.session = currentChatSession]]
          /\ histA' = [histA EXCEPT !.sends = @ + 1]
          /\ UNCHANGED <<fileSearchStorePromise, promises>>
     ELSE IF userApiKey = None
     THEN /\ taskA' = [taskA EXCEPT ![t] =
               AfterSendCaughtA([IdleTaskA EXCEPT !.op = "send", !.keyless = TRUE],
                                ConfigErrorA)]
          /\ histA' = [histA EXCEPT !.sends = @ + 1]
          /\ UNCHANGED <<fileSearchStorePromise, promises>>
     ELSE LET r == ensureFileSearchStore IN
          /\ promises' = r.promises
          /\ fileSearchStorePromise' = r.memo
          /\ taskA' = [taskA EXCEPT ![t] =
               [IdleTaskA EXCEPT !.op = "send", !.pc = "awaitStore", !.ai = userApiKey,
                                 !.changesAtCall = histA.keyChanges,
                                 !.promise = r.p]]
          /\ histA' = [histA EXCEPT !.sends = @ + 1,
                                    !.creates = @ + (IF r.created THEN 1 ELSE 0)]
  /\ UNCHANGED <<userApiKey, currentChatSession>>
  /\ UNCHANGED <<variant, varsR, varsB, app, uploader>>

\* the store promise is fulfilled: initializeChatSession creates the session
\* and returns; currentChatSession.sendMessageStream is called
SendA_StoreReady(t) ==
  /\ variant = "A"
  /\ taskA[t].op = "send"
  /\ taskA[t].pc = "awaitStore"
  /\ promises[taskA[t].promise].state = "fulfilled"
  /\ currentChatSession' = [store |-> promises[taskA[t].promise].store, key |-> taskA[t].ai,
                             changesAtCall |-> taskA[t].changesAtCall]
  /\ taskA' = [taskA EXCEPT ![t].pc = "awaitSend", ![t].dispatches = @ + 1,
                            ![t].store = promises[taskA[t].promise].store,
                            ![t].session = [store |-> promises[taskA[t].promise].store,
                                            key |-> taskA[t].ai,
                                            changesAtCall |-> taskA[t].changesAtCall]]
  /\ UNCHANGED <<userApiKey, fileSearchStorePromise, promises, histA>>
  /\ UNCHANGED <<variant, varsR, varsB, app, uploader>>

\* the store promise is rejected: initializeChatSession rejects, the catch
\* block rethrows
SendA_StoreFailed(t) ==
  /\ variant = "A"
  /\ taskA[t].op = "send"
  /\ taskA[t].pc = "awaitStore"
  /\ promises[taskA[t].promise].state = "rejected"
  /\ taskA' = [taskA EXCEPT ![t] = AfterSendCaughtA(@, promises[taskA[t].promise].error)]
  /\ UNCHANGED <<userApiKey, currentChatSession, fileSearchStorePromise, promises, histA>>
  /\ UNCHANGED <<variant, varsR, varsB, app, uploader>>

\* currentChatSession.sendMessageStream resolves: the stream is open
SendA_SendResolves(t) ==
  /\ variant = "A"
  /\ taskA[t].op = "send"
  /\ taskA[t].pc = "awaitSend"
  /\ taskA' = [taskA EXCEPT ![t].pc = "streaming", ![t].opened = TRUE]
  /\ UNCHANGED <<userApiKey, currentChatSession, fileSearchStorePromise, promises, histA>>
  /\ UNCHANGED <<variant, varsR, varsB, app, uploader>>

\* currentChatSession.sendMessageStream rejects: the catch block rethrows
SendA_SendRejects(t) ==
  /\ variant = "A"
  /\ taskA[t].op = "send"
  /\ taskA[t].pc = "awaitSend"
  /\ \E e \in SendErrorsA : taskA' = [taskA EXCEPT ![t] = AfterSendCaughtA(@, e)]
  /\ UNCHANGED <<userApiKey, currentChatSession, fileSearchStorePromise, promises, histA>>
  /\ UNCHANGED <<variant, varsR, varsB, app, uploader>>

\* the stream yields a fragment: if (text || metadata) { if (text) fullText
\* += text; onChunk(text || '', metadata) }
SendA_ChunkArrives(t) ==
  /\ variant = "A"
  /\ taskA[t].op = "send"
  /\ taskA[t].pc = "streaming"
  /\ Len(taskA[t].fragments) < MaxChunks
  /\ \E f \in Fragments :
       taskA' = [taskA EXCEPT ![t].fragments = Append(@, f),
                   ![t].fullText = IF PassedToOnChunkA(f) THEN Accumulate(@, f.text) ELSE @,
                   ![t].delivered =
                      IF PassedToOnChunkA(f)
                      THEN Append(@, OnChunkCall(Len(taskA[t].fragments) + 1, f.text, f.meta))
                      ELSE @]
  /\ UNCHANGED <<userApiKey, currentChatSession, fileSearchStorePromise, promises, histA>>
  /\ UNCHANGED <<variant, varsR, varsB, app, uploader>>

\* the stream ends: return fullText
SendA_StreamEnds(t) ==
  /\ variant = "A"
  /\ taskA[t].op = "send"
  /\ taskA[t].pc = "streaming"
  /\ taskA' = [taskA EXCEPT ![t].pc = "done", ![t].result = taskA[t].fullText]
  /\ UNCHANGED <<userApiKey, currentChatSession, fileSearchStorePromise, promises, histA>>
  /\ UNCHANGED <<variant, varsR, varsB, app, uploader>>

\* the stream throws while it is consumed: the catch block rethrows
SendA_StreamThrows(t) ==
  /\ variant = "A"
  /\ taskA[t].op = "send"
  /\ taskA[t].pc = "streaming"
  /\ \E e \in SendErrorsA : taskA' = [taskA EXCEPT ![t] = AfterSendCaughtA(@, e)]
  /\ UNCHANGED <<userApiKey, currentChatSession, fileSearchStorePromise, promises, histA>>
  /\ UNCHANGED <<variant, varsR, varsB, app, uploader>>

\* the caller has taken the outcome; the next message can be sent
SendA_Settled(t) ==
  /\ variant = "A"
  /\ taskA[t].op = "send"
  /\ taskA[t].pc \in {"done", "rejected"}
  /\ histA.sends < MaxSendsA
  /\ taskA' = [taskA EXCEPT ![t] = IdleTaskA]
  /\ UNCHANGED <<userApiKey, currentChatSession, fileSearchStorePromise, promises, histA>>
  /\ UNCHANGED <<variant, varsR, varsB, app, uploader>>

NextSendA ==
  \/ \E k \in KeysA : setApiKey(k)
  \/ clearApiKey
  \/ SendA_Call(1)
  \/ \E p \in PromiseIds : CreateStoreResolves(p)
  \/ \E p \in PromiseIds : CreateStoreRejects(p)
  \/ SendA_StoreReady(1)
  \/ SendA_StoreFailed(1)
  \/ SendA_SendResolves(1)
  \/ SendA_SendRejects(1)
  \/ SendA_ChunkArrives(1)
  \/ SendA_StreamEnds(1)
  \/ SendA_StreamThrows(1)
  \/ SendA_Settled(1)

SpecSendA == InitSendA /\ [][NextSendA]_vars

(***************************************************************************)
(* sendMessageStream, either variant                                       *)
(***************************************************************************)
InitSend == InitSendA \/ InitSendB

NextSend == NextSendA \/ NextSendB

SpecSend == InitSend /\ [][NextSend]_vars

SendsA == {t \in TasksA : taskA[t].op = "send"}
SendsB == {t \in TasksB : taskB[t].op = "send"}

(***************************************************************************)
(* Claims about sendMessageStream                                          *)
(***************************************************************************)
\* The claims' own reading of a 404-class error
Is404(e) == StatusOf(e) = 404

\* onChunk was called for fragments of strictly increasing position: no
\* fragment was passed twice, and none out of arrival order
InArrivalOrder(calls) ==
  \A i, j \in 1..Len(calls) : i < j => calls[i].idx < calls[j].idx

\* every onChunk call carries the text and metadata of the fragment at its position
CallsMatch(calls, frags) ==
  \A i \in 1..Len(calls) :
    /\ calls[i].idx \in 1..Len(frags)
    /\ calls[i].text = frags[calls[i].idx].text
    /\ calls[i].meta = frags[calls[i].idx].meta

\* the concatenation of the fragments' texts, in order
RECURSIVE ConcatTexts(_)
ConcatTexts(frags) ==
  IF frags = <<>> THEN <<>>
  ELSE LET rest == ConcatTexts(SubSeq(frags, 1, Len(frags) - 1))
           last == frags[Len(frags)].text
       IN IF last = "" THEN rest ELSE rest \o <<last>>

CarryingPositions(frags) ==
  {i \in 1..Len(frags) : frags[i].text # "" \/ frags[i].meta}

C16_OpenStreamNotRetried ==
  \A t \in SendsB :
    /\ taskB[t].dispatches <= MAX_RETRIES + 1
    /\ ~taskB[t].opened => taskB[t].delivered = <<>>
    /\ taskB[t].opened
       => /\ taskB[t].dispatches = taskB[t].openedAt
          /\ taskB[t].pc \in {"streaming", "done", "rejected"}
          /\ InArrivalOrder(taskB[t].delivered)
          /\ Len(taskB[t].delivered) <= Len(taskB[t].fragments)

C16_Witness ==
  \E t \in SendsB :
    /\ taskB[t].pc = "rejected"
    /\ taskB[t].opened
    /\ taskB[t].openedAt = 3
    /\ taskB[t].dispatches = 3
    /\ taskB[t].raised = ApiError(500, "internal error")
    /\ Len(taskB[t].delivered) = 2

(***************************************************************************)
(* handleAddFiles (src/App.tsx, lines 69-93): the batch loop of the        *)
(* application that uses variant B.  The pipeline of the i-th file of the  *)
(* batch runs on task i; app holds the loop's position, the files whose    *)
(* pipeline was started and those whose outcome the loop has taken, and    *)
(* the status the loop has stored for each.                                *)
(***************************************************************************)
\* the files whose pipeline the handler starts before it first suspends:
\* "for (const fileDoc of newFiles) { ... await uploadFileToGemini(fileDoc)"
StartedAtOnce_All(n) == 1..n
StartedAtOnce(n) == {1}

\* the status setFiles stores for a settled pipeline: the returned document's,
\* or 'error' when uploadFileToGemini rejected
StoredStatus(tk) == IF tk.pc = "returned" THEN tk.doc.status ELSE "error"

\* the store a settled pipeline has added its file to: the one its
\* createFile / importFile call named, when that call succeeded
AddedTo(tk) == IF tk.pc = "returned" /\ tk.doc.status = "active" THEN tk.store ELSE None

InitBatchB ==
  /\ variant = "B"
  /\ envApiKey \in BOOLEAN
  /\ activeStoreName = None
  /\ currentChat = NoChat
  /\ serverStores = {}
  /\ taskB = [t \in TasksB |-> IdleTaskB]
  /\ histB = IdleHistB
  /\ IdleR /\ IdleA /\ IdleApp

\* handleAddFiles(newFiles) with n files, up to its first await
HandleAddFilesB_Start(n, hasHandle) ==
  /\ variant = "B"
  /\ app.pc \in {"idle", "done"}
  /\ histB.calls + n <= MaxRunsB
  /\ app' = [pc |-> "uploading", n |-> n, i |-> 1, started |-> StartedAtOnce(n),
             settled |-> {}, status |-> <<>>, addedTo |-> <<>>,
             refreshes |-> 0, refreshError |-> NoErr]
  /\ taskB' = [t \in TasksB |-> IF t \in StartedAtOnce(n) THEN UploadB_Entry(hasHandle)
                                ELSE taskB[t]]
  /\ histB' = [histB EXCEPT !.calls = @ + Cardinality(StartedAtOnce(n))]
  /\ UNCHANGED <<envApiKey, activeStoreName, currentChat, serverStores>>
  /\ UNCHANGED <<variant, varsR, varsA>>

\* handleAddFiles called with a list of n documents
HandleAddFilesB(n, hasHandle) ==
  /\ HandleAddFilesB_Start(n, hasHandle)
  /\ UNCHANGED uploader

\* "await uploadFileToGemini(fileDoc)" resumes, with the document or in the
\* catch block: setFiles; the loop calls uploadFileToGemini for the next file
BatchB_NextFile(hasHandle) ==
  /\ variant = "B"
  /\ app.pc = "uploading"
  /\ app.i < app.n
  /\ taskB[app.i].pc \in {"returned", "rejected"}
  /\ UNCHANGED uploader
  /\ app' = [app EXCEPT !.i = @ + 1, !.started = @ \cup {app.i + 1},
                        !.settled = @ \cup {app.i},
                        !.status = Append(@, StoredStatus(taskB[app.i])),
                        !.addedTo = Append(@, AddedTo(taskB[app.i]))]
  /\ taskB' = [taskB EXCEPT ![app.i] = IdleTaskB, ![app.i + 1] = UploadB_Entry(hasHandle)]
  /\ histB' = [histB EXCEPT !.calls = @ + 1]
  /\ UNCHANGED <<envApiKey, activeStoreName, currentChat, serverStores>>
  /\ UNCHANGED <<variant, varsR, varsA>>

\* the last "await uploadFileToGemini(fileDoc)" resumes: setFiles; the loop
\* ends and initializeChatSession() is called
BatchB_LastFile ==
  /\ variant = "B"
  /\ app.pc = "uploading"
  /\ app.i = app.n
  /\ taskB[app.i].pc \in {"returned", "rejected"}
  /\ envApiKey => histB.creates + CreatesOnEntry <= MaxCreatesB
  /\ UNCHANGED uploader
  /\ app' = [app EXCEPT !.pc = "refreshing", !.settled = @ \cup {app.i},
                        !.status = Append(@, StoredStatus(taskB[app.i])),
                        !.addedTo = Append(@, AddedTo(taskB[app.i])),
                        !.refreshes = @ + 1]
  /\ taskB' = [taskB EXCEPT ![app.i] = IdleTaskB, ![1] = InitSessionB_Entry]
  /\ histB' = [histB EXCEPT !.creates = @ + (IF envApiKey THEN CreatesOnEntry ELSE 0)]
  /\ UNCHANGED <<envApiKey, activeStoreName, currentChat, serverStores>>
  /\ UNCHANGED <<variant, varsR, varsA>>

\* the batch once "await initializeChatSession()" has settled as task tk: a
\* rejection is logged by the catch block (App.tsx 89-93) or rejects the
\* handler (App.tsx 688-690); no file is touched
AfterRefresh_MarksFiles(a, tk) ==
  IF tk.pc = "rejected"
  THEN [a EXCEPT !.pc = "done", !.refreshError = tk.error,
                 !.status = [i \in 1..Len(a.status) |-> "error"]]
  ELSE [a EXCEPT !.pc = "done"]
AfterRefresh(a, tk) ==
  [a EXCEPT !.pc = "done",
            !.refreshError = IF tk.pc = "rejected" THEN tk.error ELSE NoErr]

\* "await initializeChatSession()" resumes, or its catch block logs: the
\* handler returns
BatchB_Refreshed ==
  /\ variant = "B"
  /\ app.pc = "refreshing"
  /\ taskB[1].op = "init"
  /\ taskB[1].pc \in {"done", "rejected"}
  /\ app' = AfterRefresh(app, taskB[1])
  /\ UNCHANGED uploader
  /\ taskB' = [taskB EXCEPT ![1] = IdleTaskB]
  /\ UNCHANGED <<envApiKey, activeStoreName, currentChat, serverStores, histB>>
  /\ UNCHANGED <<variant, varsR, varsA>>

NextBatchB ==
  \/ \E n \in TasksB, h \in BOOLEAN : HandleAddFilesB(n, h)
  \/ \E h \in BOOLEAN : BatchB_NextFile(h)
  \/ BatchB_LastFile
  \/ BatchB_Refreshed
  \/ \E t \in TasksB : UploadB_UploadResolves(t)
  \/ \E t \in TasksB : UploadB_UploadRejects(t)
  \/ \E t \in TasksB : UploadB_UploadBackoffElapsed(t)
  \/ \E t \in TasksB : UploadB_FileGetResolves(t)
  \/ \E t \in TasksB : UploadB_FileGetRejects(t)
  \/ \E t \in TasksB : UploadB_FileSleepElapsed(t)
  \/ \E t \in TasksB : StoreGetResolves(t)
  \/ \E t \in TasksB : StoreGetRejects(t)
  \/ \E t \in TasksB : StoreCreateResolves(t)
  \/ \E t \in TasksB : StoreCreateRejects(t)
  \/ \E t \in TasksB : StoreCreateBackoffElapsed(t)
  \/ \E t \in TasksB : UploadB_CreateFileResolves(t)
  \/ \E t \in TasksB : UploadB_CreateFileRejects(t)
  \/ \E t \in TasksB : UploadB_CreateFileBackoffElapsed(t)

SpecBatchB == InitBatchB /\ [][NextBatchB]_vars

(***************************************************************************)
(* handleAddFiles (src/App.tsx, lines 661-690) and useFileManager.addFiles *)
(* (the hook, lines 291-329): the batch loop of the applications that use  *)
(* variant A.  Both run the same loop; the pipeline of the i-th file runs  *)
(* on task i.                                                              *)
(***************************************************************************)
\* the status updateFile stores for a settled pipeline: the returned
\* document's, or 'error' in the catch block
StoredStatusA(tk) == IF tk.pc = "returned" THEN tk.doc.status ELSE "error"

InitBatchA ==
  /\ variant = "A"
  /\ userApiKey = None
  /\ currentChatSession = NoSession
  /\ fileSearchStorePromise = None
  /\ promises = <<>>
  /\ taskA = [t \in TasksA |-> IdleTaskA]
  /\ histA = IdleHistA
  /\ IdleR /\ IdleB /\ IdleApp

\* handleApiKeySubmit(apiKey): the key entry screen is all the application
\* renders until a key has been submitted, and it is not shown again
HandleApiKeySubmit(k) ==
  /\ userApiKey = None
  /\ setApiKey(k)

\* handleAddFiles(newFiles) / addFiles(newFiles) with n files, up to the
\* first await; the uploader is rendered once a key has been submitted
HandleAddFilesA_Start(n, hasHandle) ==
  /\ variant = "A"
  /\ userApiKey # None
  /\ app.pc \in {"idle", "done"}
  /\ histA.calls + n <= MaxRunsA
  /\ LET e == UploadA_Entry(hasHandle) IN
     /\ taskA' = [t \in TasksA |-> IF t \in StartedAtOnce(n) THEN e.task ELSE taskA[t]]
     /\ promises' = e.promises
     /\ fileSearchStorePromise' = e.memo
     /\ histA' = [histA EXCEPT !.calls = @ + Cardinality(StartedAtOnce(n)),
                               !.creates = @ + (IF e.created THEN 1 ELSE 0)]
  /\ app' = [pc |-> "uploading", n |-> n, i |-> 1, started |-> StartedAtOnce(n),
             settled |-> {}, status |-> <<>>, addedTo |-> <<>>,
             refreshes |-> 0, refreshError |-> NoErr]
  /\ UNCHANGED <<userApiKey, currentChatSession>>
  /\ UNCHANGED <<variant, varsR, varsB>>

\* handleAddFiles / addFiles called with a list of n documents
HandleAddFilesA(n, hasHandle) ==
  /\ HandleAddFilesA_Start(n, hasHandle)
  /\ UNCHANGED uploader

\* "await uploadFileToGemini(fileDoc)" resumes, with the document or in the
\* catch block: updateFile; the loop calls uploadFileToGemini for the next file
BatchA_NextFile(hasHandle) ==
  /\ variant = "A"
  /\ app.pc = "uploading"
  /\ app.i < app.n
  /\ taskA[app.i].pc \in {"returned", "rejected"}
  /\ LET e == UploadA_Entry(hasHandle) IN
     /\ taskA' = [taskA EXCEPT ![app.i] = IdleTaskA, ![app.i + 1] = e.task]
     /\ promises' = e.promises
     /\ fileSearchStorePromise' = e.memo
     /\ histA' = [histA EXCEPT !.calls = @ + 1,
                               !.creates = @ + (IF e.created THEN 1 ELSE 0)]
  /\ UNCHANGED uploader
  /\ app' = [app EXCEPT !.i = @ + 1, !.started = @ \cup {app.i + 1},
                        !.settled = @ \cup {app.i},
                        !.status = Append(@, StoredStatusA(taskA[app.i])),
                        !.addedTo = Append(@, AddedTo(taskA[app.i]))]
  /\ UNCHANGED <<userApiKey, currentChatSession>>
  /\ UNCHANGED <<variant, varsR, varsB>>

\* the last "await uploadFileToGemini(fileDoc)" resumes: updateFile; the loop
\* ends and initializeChatSession() is called
BatchA_LastFile ==
  /\ variant = "A"
  /\ app.pc = "uploading"
  /\ app.i = app.n
  /\ taskA[app.i].pc \in {"returned", "rejected"}
  /\ (userApiKey # None /\ fileSearchStorePromise = None) => Len(promises) < MaxCallsA
  /\ LET e == InitSessionA_Entry IN
     /\ taskA' = [taskA EXCEPT ![app.i] = IdleTaskA, ![1] = e.task]
     /\ promises' = e.promises
     /\ fileSearchStorePromise' = e.memo
     /\ histA' = [histA EXCEPT !.creates = @ + (IF e.created THEN 1 ELSE 0)]
  /\ UNCHANGED uploader
  /\ app' = [app EXCEPT !.pc = "refreshing", !.settled = @ \cup {app.i},
                        !.status = Append(@, StoredStatusA(taskA[app.i])),
                        !.addedTo = Append(@, AddedTo(taskA[app.i])),
                        !.refreshes = @ + 1]
  /\ UNCHANGED <<userApiKey, currentChatSession>>
  /\ UNCHANGED <<variant, varsR, varsB>>

\* "await initializeChatSession()" has resumed (InitSessionA_Resume) or thrown
\* (InitSessionA_Throws): the handler returns or rejects
BatchA_Refreshed ==
  /\ variant = "A"
  /\ app.pc = "refreshing"
  /\ taskA[1].op = "init"
  /\ taskA[1].pc \in {"done", "rejected"}
  /\ app' = AfterRefresh(app, taskA[1])
  /\ UNCHANGED uploader
  /\ taskA' = [taskA EXCEPT ![1] = IdleTaskA]
  /\ UNCHANGED <<userApiKey, currentChatSession, fileSearchStorePromise, promises, histA>>
  /\ UNCHANGED <<variant, varsR, varsB>>

NextBatchA ==
  \/ \E k \in KeysA : HandleApiKeySubmit(k)
  \/ \E n \in TasksA, h \in BOOLEAN : HandleAddFilesA(n, h)
  \/ \E h \in BOOLEAN : BatchA_NextFile(h)
  \/ BatchA_LastFile
  \/ BatchA_Refreshed
  \/ \E p \in PromiseIds : CreateStoreResolves(p)
  \/ \E p \in PromiseIds : CreateStoreRejects(p)
  \/ \E t \in TasksA : InitSessionA_Resume(t)
  \/ \E t \in TasksA : InitSessionA_Throws(t)
  \/ \E t \in TasksA : UploadA_StoreReady(t)
  \/ \E t \in TasksA : UploadA_StoreFailed(t)
  \/ \E t \in TasksA : UploadA_UploadResolves(t)
  \/ \E t \in TasksA : UploadA_UploadRejects(t)
  \/ \E t \in TasksA : UploadA_ImportResolves(t)
  \/ \E t \in TasksA : UploadA_ImportRejects(t)
  \/ \E t \in TasksA : UploadA_PollDelayElapsed(t)
  \/ \E t \in TasksA : UploadA_PollResolves(t)
  \/ \E t \in TasksA : UploadA_PollRejects(t)

SpecBatchA == InitBatchA /\ [][NextBatchA]_vars

(***************************************************************************)
(* the batch loop, either variant                                          *)
(***************************************************************************)
InitBatch == InitBatchA \/ InitBatchB

NextBatch == NextBatchA \/ NextBatchB

SpecBatch == InitBatch /\ [][NextBatch]_vars

\* the pipelines in flight: uploadFileToGemini calls that have neither
\* returned nor rejected
InFlightA == {t \in TasksA : taskA[t].op = "upload" /\ taskA[t].pc \notin {"returned", "rejected"}}
InFlightB == {t \in TasksB : taskB[t].op = "upload" /\ taskB[t].pc \notin {"returned", "rejected"}}

\* C17: the files of a batch are processed strictly one after another: at
\* most one pipeline is in flight at any time, a file's pipeline has been
\* started only if the loop has taken the outcome of every file before it,
\* and at most one started file is still waiting for its outcome to be taken.
C17_SequentialBatch ==
  /\ Cardinality(InFlightA \cup InFlightB) <= 1
  /\ \A j \in app.started : \A i \in 1..(j - 1) : i \in app.settled
  /\ Cardinality(app.started \ app.settled) <= 1
  /\ app.settled \subseteq app.started
  /\ app.started \subseteq 1..app.n

C17_Witness ==
  /\ variant = "B"
  /\ app.n = 2
  /\ app.started = {1, 2}
  /\ app.settled = {1}
  /\ app.status = <<"active">>
  /\ InFlightB = {2}
  /\ taskB[2].pc = "awaitFileGet"
  /\ taskB[2].polls = 1

(***************************************************************************)
(* FileUploader.handleFiles (src/components/FileUploader.tsx, lines        *)
(* 11-61).  A selected file is its name and its size; a name is the        *)
(* sequence of its characters.  handleFiles suspends only in               *)
(* "await readFileAsText(file)"; when its loop ends with a non-empty list  *)
(* it calls onFilesAdded, which is the application's handleAddFiles.       *)
(***************************************************************************)
UpperCase == <<"A","B","C","D","E","F","G","H","I","J","K","L","M",
               "N","O","P","Q","R","S","T","U","V","W","X","Y","Z">>
LowerCase == <<"a","b","c","d","e","f","g","h","i","j","k","l","m",
               "n","o","p","q","r","s","t","u","v","w","x","y","z">>

\* str.toLowerCase()
toLowerCase(str) ==
  [k \in 1..Len(str) |->
     IF \E u \in 1..26 : UpperCase[u] = str[k]
     THEN LowerCase[CHOOSE u \in 1..26 : UpperCase[u] = str[k]]
     ELSE str[k]]

\* name.split('.').pop(): the characters after the last '.', or the whole
\* name when it has none
SplitPop(name) ==
  LET dots == {k \in 1..Len(name) : name[k] = "."} IN
  IF dots = {} THEN name
  ELSE SubSeq(name, (CHOOSE k \in dots : \A j \in dots : j <= k) + 1, Len(name))

\* const extRaw = file.name.split('.').pop()?.toLowerCase()
ExtRaw(file) == toLowerCase(SplitPop(file.name))

\* const ext = extRaw ? `.${extRaw}` : ''
Ext(file) == IF ExtRaw(file) # <<>> THEN <<".">> \o ExtRaw(file) ELSE <<>>

\* MIME_TYPE_MAP[extRaw || 'txt'] || 'text/plain'
MimeType(file) ==
  LET key == IF ExtRaw(file) # <<>> THEN ExtRaw(file) ELSE <<"t", "x", "t">> IN
  IF key \in MIME_TYPE_KEYS THEN MIME_TYPE_MAP(key) ELSE "text/plain"

\* mimeType.startsWith('text/') || mimeType === 'application/json' ||
\* mimeType.includes('sql') || mimeType.includes('xml'), over the values of
\* MIME_TYPE_MAP
ReadsText(mimeType) ==
  mimeType \in {"text/plain", "text/markdown", "text/csv", "text/javascript",
                "text/x-python", "text/html", "text/css", "text/xml",
                "application/json", "application/x-sql"}

\* the document handleFiles pushes for a file
NewDocument(file) ==
  [name |-> file.name, size |-> file.size, type |-> Ext(file),
   mimeType |-> MimeType(file), fileHandle |-> TRUE, status |-> "pending"]

\* the selections: files of a few names at the smaller limit, and text, PDF
\* and unsupported files just over either limit
FileNames ==
  { <<"a", ".", "t", "x", "t">>,
    <<"a", ".", "T", "X", "T">>,
    <<"a", ".", "p", "d", "f">>,
    <<"a", ".", "e", "x", "e">>,
    <<"t", "x", "t">>,
    <<"a", ".">>,
    <<"a", ".", "b", ".", "m", "d">> }
LargeFileNames ==
  { <<"a", ".", "t", "x", "t">>, <<"a", ".", "p", "d", "f">>, <<"a", ".", "e", "x", "e">> }
Files ==
  [name : FileNames, size : {MAX_FILE_SIZE}]
    \cup [name : LargeFileNames, size : {MAX_FILE_SIZE + 1, MAX_FILE_SIZE_25MB + 1}]
FileLists == UNION {[1..n -> Files] : n \in 0..MaxSelected}

\* the loop of handleFiles from file i on, up to "await readFileAsText(file)"
\* or to the end of the list
RECURSIVE Scan(_, _, _, _)
Scan(fileList, i, newFiles, limit) ==
  IF i > Len(fileList) THEN [pc |-> "end", i |-> i, newFiles |-> newFiles]
  ELSE IF Ext(fileList[i]) \notin SUPPORTED_EXTENSIONS
       THEN Scan(fileList, i + 1, newFiles, limit)
  ELSE IF fileList[i].size > limit
       THEN Scan(fileList, i + 1, newFiles, limit)
  ELSE IF ReadsText(MimeType(fileList[i]))
       THEN [pc |-> "reading", i |-> i, newFiles |-> newFiles]
  ELSE Scan(fileList, i + 1, Append(newFiles, NewDocument(fileList[i])), limit)

\* onFilesAdded(newFiles): <FileUploader onFilesAdded={handleAddFiles} />
OnFilesAdded(n) ==
  IF variant = "B" THEN HandleAddFilesB_Start(n, TRUE)
  ELSE HandleAddFilesA_Start(n, TRUE)

\* handleFiles runs on from file i with the list newFiles
HandleFiles_Continue(fileList, i, newFiles) ==
  LET r == Scan(fileList, i, newFiles, uploader.limit) IN
  IF r.pc = "reading"
  THEN /\ uploader' = [uploader EXCEPT !.pc = "reading", !.fileList = fileList,
                                       !.i = r.i, !.newFiles = r.newFiles]
       /\ UNCHANGED <<variant, varsR, varsA, varsB, app>>
  ELSE IF r.newFiles = <<>>
  THEN /\ uploader' = [uploader EXCEPT !.pc = "done", !.fileList = fileList,
                                       !.i = r.i, !.newFiles = r.newFiles]
       /\ UNCHANGED <<variant, varsR, varsA, varsB, app>>
  ELSE /\ uploader' = [uploader EXCEPT !.pc = "done", !.fileList = fileList,
                                       !.i = r.i, !.newFiles = r.newFiles,
                                       !.passed = r.newFiles, !.calls = @ + 1]
       /\ OnFilesAdded(Len(r.newFiles))

InitUploader ==
  /\ variant \in {"A", "B"}
  /\ IdleR /\ IdleA
  /\ envApiKey \in BOOLEAN
  /\ activeStoreName = None
  /\ currentChat = NoChat
  /\ serverStores = {}
  /\ taskB = [t \in TasksB |-> IdleTaskB]
  /\ histB = IdleHistB
  /\ app = NoBatch
  /\ uploader \in {[NoSelection EXCEPT !.limit = l] : l \in {MAX_FILE_SIZE, MAX_FILE_SIZE_25MB}}

\* handleFiles(fileList), up to its first await or to its end
HandleFiles_Call(fileList) ==
  /\ uploader.pc = "idle"
  /\ variant = "A" => userApiKey # None
  /\ HandleFiles_Continue(fileList, 1, <<>>)

\* "content = await readFileAsText(file)" resumes: the document is pushed
HandleFiles_ReadResolves ==
  /\ uploader.pc = "reading"
  /\ HandleFiles_Continue(uploader.fileList, uploader.i + 1,
                          Append(uploader.newFiles, NewDocument(uploader.fileList[uploader.i])))

\* readFileAsText rejects: "catch (e) { console.error(...) }"
HandleFiles_ReadRejects ==
  /\ uploader.pc = "reading"
  /\ HandleFiles_Continue(uploader.fileList, uploader.i + 1, uploader.newFiles)

\* the key entry screen of the application that uses variant A
SubmitKeyBeforeUploader(k) ==
  /\ variant = "A"
  /\ uploader.pc = "idle"
  /\ HandleApiKeySubmit(k)

NextUploader ==
  \/ \E k \in KeysA : SubmitKeyBeforeUploader(k)
  \/ \E fileList \in FileLists : HandleFiles_Call(fileList)
  \/ HandleFiles_ReadResolves
  \/ HandleFiles_ReadRejects

SpecUploader == InitUploader /\ [][NextUploader]_vars

\* a file's extension: the lower-cased text from the last '.' of its name
\* on, and none when the name has no '.'
HasDot(name) == \E k \in 1..Len(name) : name[k] = "."
FileExtension(name) ==
  IF HasDot(name) /\ SplitPop(name) # <<>> THEN <<".">> \o toLowerCase(SplitPop(name)) ELSE <<>>
Rejectable(name, size) ==
  FileExtension(name) \notin SUPPORTED_EXTENSIONS \/ size > uploader.limit

\* C20: a selected file whose extension is not in SUPPORTED_EXTENSIONS or
\* whose size exceeds MAX_FILE_SIZE is rejected by handleFiles: it is neither
\* collected in newFiles nor passed to onFilesAdded, and handleAddFiles is
\* given, and starts a pipeline for, the passed documents only.
C20_RejectedLocally ==
  /\ \A k \in 1..Len(uploader.newFiles) :
       ~Rejectable(uploader.newFiles[k].name, uploader.newFiles[k].size)
  /\ \A k \in 1..Len(uploader.passed) :
       ~Rejectable(uploader.passed[k].name, uploader.passed[k].size)
  /\ app.n = Len(uploader.passed)
  /\ app.started \subseteq 1..Len(uploader.passed)

(***************************************************************************)
(* The remaining service operations.  Variant A: listFileStores (lines     *)
(* 143-146) and deleteFileStore (lines 156-163).  Variant B:               *)
(* deleteFileFromGemini (lines 532-539) and deleteFileSearchStore (lines   *)
(* 633-639).  Each starts with getAiClient(), outside any try block.       *)
(***************************************************************************)
\* listFileStores() / deleteFileStore(storeName) up to the remote call
RemoteCallA_Entry(op) ==
  IF userApiKey = None
  THEN [IdleTaskA EXCEPT !.pc = "rejected", !.op = op, !.error = ConfigErrorA,
                         !.keyless = TRUE]
  ELSE [IdleTaskA EXCEPT !.pc = "awaitRemote", !.op = op, !.ai = userApiKey,
                         !.dispatches = 1]

ListFileStoresA_Call(t) ==
  /\ variant = "A"
  /\ taskA[t].pc = "idle"
  /\ histA.calls < MaxCallsA
  /\ taskA' = [taskA EXCEPT ![t] = RemoteCallA_Entry("list")]
  /\ histA' = [histA EXCEPT !.calls = @ + 1]
  /\ UNCHANGED <<userApiKey, currentChatSession, fileSearchStorePromise, promises>>
  /\ UNCHANGED <<variant, varsR, varsB, app, uploader>>

DeleteFileStoreA_Call(t) ==
  /\ variant = "A"
  /\ taskA[t].pc = "idle"
  /\ histA.calls < MaxCallsA
  /\ taskA' = [taskA EXCEPT ![t] = RemoteCallA_Entry("deleteStore")]
  /\ histA' = [histA EXCEPT !.calls = @ + 1]
  /\ UNCHANGED <<userApiKey, currentChatSession, fileSearchStorePromise, promises>>
  /\ UNCHANGED <<variant, varsR, varsB, app, uploader>>

\* deleteFileStore(storeName) up to "await ai.fileSearchStores.delete(...)"
DeleteFileStoreA_CallFor(t, storeName) ==
  /\ variant = "A"
  /\ taskA[t].pc = "idle"
  /\ histA.calls < MaxCallsA
  /\ taskA' = [taskA EXCEPT ![t] = [RemoteCallA_Entry("deleteStore") EXCEPT
                                       !.store = storeName]]
  /\ histA' = [histA EXCEPT !.calls = @ + 1]
  /\ UNCHANGED <<userApiKey, currentChatSession, fileSearchStorePromise, promises>>
  /\ UNCHANGED <<variant, varsR, varsB, app, uploader>>

\* fileSearchStores.list / fileSearchStores.delete resolves: the call returns;
\* a named store is deleted on the server, the memo is left as it is
RemoteCallA_Resolves(t) ==
  /\ variant = "A"
  /\ taskA[t].pc = "awaitRemote"
  /\ taskA' = [taskA EXCEPT ![t].pc = "done"]
  /\ histA' = IF taskA[t].op = "deleteStore" /\ taskA[t].store # None
              THEN [histA EXCEPT !.deleted = @ \cup {taskA[t].store}]
              ELSE histA
  /\ UNCHANGED <<userApiKey, currentChatSession, fileSearchStorePromise, promises>>
  /\ UNCHANGED <<variant, varsR, varsB, app, uploader>>

\* fileSearchStores.list / fileSearchStores.delete rejects: so does the call
RemoteCallA_Rejects(t) ==
  /\ variant = "A"
  /\ taskA[t].pc = "awaitRemote"
  /\ \E e \in ErrorsA : taskA' = [taskA EXCEPT ![t].pc = "rejected", ![t].error = e]
  /\ UNCHANGED <<userApiKey, currentChatSession, fileSearchStorePromise, promises, histA>>
  /\ UNCHANGED <<variant, varsR, varsB, app, uploader>>

RemoteCallA_Settled(t) ==
  /\ variant = "A"
  /\ taskA[t].op \in {"list", "deleteStore"}
  /\ taskA[t].pc \in {"done", "rejected"}
  /\ histA.calls < MaxCallsA
  /\ taskA' = [taskA EXCEPT ![t] = IdleTaskA]
  /\ UNCHANGED <<userApiKey, currentChatSession, fileSearchStorePromise, promises, histA>>
  /\ UNCHANGED <<variant, varsR, varsB, app, uploader>>

\* deleteFileFromGemini(uri) / deleteFileSearchStore(storeName) up to
\* withRetry(...delete...)
DeleteB_Entry(op, name) ==
  IF ~envApiKey
  THEN [IdleTaskB EXCEPT !.pc = "rejected", !.op = op, !.error = ConfigErrorB]
  ELSE [IdleTaskB EXCEPT !.pc = "awaitDelete", !.op = op, !.retries = MAX_RETRIES,
                         !.store = name, !.dispatches = 1]

DeleteFileFromGemini_Call(t, uri) ==
  /\ variant = "B"
  /\ taskB[t].pc = "idle"
  /\ histB.calls < MaxCallsB
  /\ taskB' = [taskB EXCEPT ![t] = DeleteB_Entry("deleteFile", uri)]
  /\ histB' = [histB EXCEPT !.calls = @ + 1]
  /\ UNCHANGED <<envApiKey, activeStoreName, currentChat, serverStores>>
  /\ UNCHANGED <<variant, varsR, varsA, app, uploader>>

DeleteFileSearchStore_Call(t, storeName) ==
  /\ variant = "B"
  /\ taskB[t].pc = "idle"
  /\ histB.calls < MaxCallsB
  /\ taskB' = [taskB EXCEPT ![t] = DeleteB_Entry("deleteStore", storeName)]
  /\ histB' = [histB EXCEPT !.calls = @ + 1]
  /\ UNCHANGED <<envApiKey, activeStoreName, currentChat, serverStores>>
  /\ UNCHANGED <<variant, varsR, varsA, app, uploader>>

\* files.delete / fileSearchStores.delete resolves: the call returns; a
\* deleted store is gone on the server, the cached name is left as it is
DeleteB_Resolves(t) ==
  /\ variant = "B"
  /\ taskB[t].pc = "awaitDelete"
  /\ taskB' = [taskB EXCEPT ![t].pc = "done"]
  /\ serverStores' = IF taskB[t].op = "deleteStore" THEN serverStores \ {taskB[t].store}
                     ELSE serverStores
  /\ UNCHANGED <<envApiKey, activeStoreName, currentChat, histB>>
  /\ UNCHANGED <<variant, varsR, varsA, app, uploader>>

\* the error withRetry gives up on: deleteFileFromGemini's catch block logs it
\* and the call returns; deleteFileSearchStore rejects with it
AfterDeleteFailed_Thrown(tk, e) == [tk EXCEPT !.pc = "rejected", !.error = e]
AfterDeleteFailed(tk, e) ==
  IF tk.op = "deleteFile" THEN [tk EXCEPT !.pc = "done", !.raised = e]
  ELSE [tk EXCEPT !.pc = "rejected", !.error = e]

\* files.delete / fileSearchStores.delete rejects: withRetry backs off or
\* gives up
DeleteB_Rejects(t) ==
  /\ variant = "B"
  /\ taskB[t].pc = "awaitDelete"
  /\ \E e \in Errors :
       IF ShouldRetry(e, taskB[t].retries)
       THEN taskB' = [taskB EXCEPT ![t].pc = "backoffDelete"]
       ELSE taskB' = [taskB EXCEPT ![t] = AfterDeleteFailed(@, e)]
  /\ UNCHANGED <<envApiKey, activeStoreName, currentChat, serverStores, histB>>
  /\ UNCHANGED <<variant, varsR, varsA, app, uploader>>

\* withRetry's timer fires: the delete is called again
DeleteB_BackoffElapsed(t) ==
  /\ variant = "B"
  /\ taskB[t].pc = "backoffDelete"
  /\ taskB' = [taskB EXCEPT ![t].pc = "awaitDelete", ![t].retries = @ - 1,
                            ![t].dispatches = @ + 1]
  /\ UNCHANGED <<envApiKey, activeStoreName, currentChat, serverStores, histB>>
  /\ UNCHANGED <<variant, varsR, varsA, app, uploader>>

DeleteB_Settled(t) ==
  /\ variant = "B"
  /\ taskB[t].op \in {"deleteFile", "deleteStore"}
  /\ taskB[t].pc \in {"done", "rejected"}
  /\ histB.calls < MaxCallsB
  /\ taskB' = [taskB EXCEPT ![t] = IdleTaskB]
  /\ UNCHANGED <<envApiKey, activeStoreName, currentChat, serverStores, histB>>
  /\ UNCHANGED <<variant, varsR, varsA, app, uploader>>

(***************************************************************************)
(* The operations of the service called while no credential is set, one    *)
(* call at a time on task 1.  Variant A: the credential is set, changed    *)
(* and cleared while initializeChatSession and sendMessageStream run (the  *)
(* response streams carry no fragments here); uploadFileToGemini is        *)
(* called only while no credential is set.  Variant B: API_KEY is absent   *)
(* from the environment.                                                   *)
(***************************************************************************)
InitCredentialA == InitSendA

\* uploadFileToGemini(fileDoc) while userApiKey is null
UploadA_CallWithoutKey(t, hasHandle) ==
  /\ userApiKey = None
  /\ UploadA_Call(t, hasHandle)

NextCredentialA ==
  \/ \E k \in KeysA : setApiKey(k)
  \/ clearApiKey
  \/ \E p \in PromiseIds : CreateStoreResolves(p)
  \/ \E p \in PromiseIds : CreateStoreRejects(p)
  \/ SendA_Call(1)
  \/ SendA_StoreReady(1)
  \/ SendA_StoreFailed(1)
  \/ SendA_SendResolves(1)
  \/ SendA_SendRejects(1)
  \/ SendA_StreamEnds(1)
  \/ SendA_StreamThrows(1)
  \/ SendA_Settled(1)
  \/ InitSessionA_Call(1)
  \/ InitSessionA_Resume(1)
  \/ InitSessionA_Throws(1)
  \/ InitSessionA_Settled(1)
  \/ \E h \in BOOLEAN : UploadA_CallWithoutKey(1, h)
  \/ UploadA_Settled(1)
  \/ ListFileStoresA_Call(1)
  \/ DeleteFileStoreA_Call(1)
  \/ RemoteCallA_Resolves(1)
  \/ RemoteCallA_Rejects(1)
  \/ RemoteCallA_Settled(1)

SpecCredentialA == InitCredentialA /\ [][NextCredentialA]_vars

InitCredentialB ==
  /\ InitStoreB
  /\ ~envApiKey

NextCredentialB ==
  \/ SendB_Call(1)
  \/ SendB_Settled(1)
  \/ InitSessionB_Call(1)
  \/ InitSessionB_Settled(1)
  \/ \E h \in BOOLEAN : UploadB_Call(1, h)
  \/ UploadB_Settled(1)
  \/ \E u \in 1..MaxRunsB : DeleteFileFromGemini_Call(1, u)
  \/ \E n \in StoreNames : DeleteFileSearchStore_Call(1, n)
  \/ DeleteB_Settled(1)

SpecCredentialB == InitCredentialB /\ [][NextCredentialB]_vars

InitCredential == InitCredentialA \/ InitCredentialB

NextCredential == NextCredentialA \/ NextCredentialB

SpecCredential == InitCredential /\ [][NextCredential]_vars

\* C21: an operation called while no credential is set fails with the
\* configuration error before it issues any network call, and is not retried.
\* (A document without a file handle is refused with its own error, also
\* before any network call.)
C21_NoCredentialNoNetworkCall ==
  /\ \A t \in TasksA :
       taskA[t].keyless =>
         /\ taskA[t].pc = "rejected"
         /\ taskA[t].dispatches = 0
         /\ taskA[t].promise = None
         /\ \/ taskA[t].error = ConfigErrorA
            \/ taskA[t].op = "upload" /\ taskA[t].error = NoHandleErrorA
  /\ \A t \in TasksB :
       (variant = "B" /\ ~envApiKey /\ taskB[t].op # "none") =>
         /\ taskB[t].pc = "rejected"
         /\ taskB[t].dispatches = 0
         /\ taskB[t].retries = 0
         /\ \/ taskB[t].error = ConfigErrorB
            \/ taskB[t].op = "upload" /\ taskB[t].error = NoHandleErrorB

\* C22: setApiKey and clearApiKey leave no memoized store and no session, so
\* that the store found memoized was created since the last credential
\* change, and a send is dispatched to a session whose creation was started
\* since the last credential change before the send.
C22_CredentialChangeResets ==
  /\ (fileSearchStorePromise # None /\ promises[fileSearchStorePromise].state # "rejected") =>
        promises[fileSearchStorePromise].key = userApiKey
  /\ \A t \in TasksA :
       (taskA[t].op = "send" /\ taskA[t].dispatches > 0) =>
          taskA[t].session.changesAtCall = taskA[t].changesAtCall

(***************************************************************************)
(* initializeChatSession, variant B (lines 547-592), with the paths the    *)
(* other specifications leave out: an explicit storeName, and              *)
(* ai.chats.create throwing.  The first ai.chats.create is inside a try    *)
(* block; the one in its catch block is not.                               *)
(***************************************************************************)
ChatCreateErrors == {NotFound, ApiError(500, "internal error"), ApiError(400, "bad request")}

\* the call once ai.chats.create has thrown e (lines 574-591): "if (status
\* === 404 && !storeName)" inside the catch block of the first create resets
\* the store and calls getOrCreateStore again; otherwise the error is thrown
AfterChatCreateThrew_RetriesAgain(tk, e) ==
  IF getErrorStatus(e) = 404 /\ tk.storeName = None
  THEN [tk EXCEPT !.pc = "awaitCreate", !.retries = MAX_RETRIES,
                  !.chatCreates = @ + 1, !.chatErrors = Append(@, e)]
  ELSE [tk EXCEPT !.pc = "rejected", !.error = e,
                  !.chatCreates = @ + 1, !.chatErrors = Append(@, e)]
AfterChatCreateThrew(tk, e) ==
  IF tk.chatErrors = <<>> /\ getErrorStatus(e) = 404 /\ tk.storeName = None
  THEN [tk EXCEPT !.pc = "awaitCreate", !.retries = MAX_RETRIES,
                  !.chatCreates = @ + 1, !.chatErrors = Append(@, e)]
  ELSE [tk EXCEPT !.pc = "rejected", !.error = e,
                  !.chatCreates = @ + 1, !.chatErrors = Append(@, e)]

\* initializeChatSession(storeName): ai.chats.create bound to storeName; the
\* call does not suspend
InitSessionB_CallWithStore(t, storeName) ==
  /\ variant = "B"
  /\ taskB[t].pc = "idle"
  /\ histB.calls < MaxCallsB
  /\ IF ~envApiKey
     THEN /\ taskB' = [taskB EXCEPT ![t] =
               [IdleTaskB EXCEPT !.pc = "rejected", !.op = "init", !.error = ConfigErrorB,
                                 !.storeName = storeName]]
          /\ UNCHANGED currentChat
     ELSE \E e \in {NoErr} \cup ChatCreateErrors :
          IF e = NoErr
          THEN /\ taskB' = [taskB EXCEPT ![t] =
                    StoreReturned([IdleTaskB EXCEPT !.op = "init", !.storeName = storeName],
                                  storeName)]
               /\ currentChat' = ChatAfterStoreReturned([IdleTaskB EXCEPT !.op = "init"],
                                                        storeName)
          ELSE /\ taskB' = [taskB EXCEPT ![t] =
                    AfterChatCreateThrew([IdleTaskB EXCEPT !.op = "init", !.storeName = storeName,
                                                           !.store = storeName], e)]
               /\ UNCHANGED currentChat
  /\ histB' = [histB EXCEPT !.calls = @ + 1]
  /\ UNCHANGED <<envApiKey, activeStoreName, serverStores>>
  /\ UNCHANGED <<variant, varsR, varsA, app, uploader>>

\* fileSearchStores.get resolves, getOrCreateStore returns activeStoreName and
\* ai.chats.create throws
InitSessionB_GetResolves_ChatThrows(t) ==
  /\ variant = "B"
  /\ taskB[t].op = "init"
  /\ taskB[t].pc = "awaitGet"
  /\ taskB[t].checking \in serverStores
  /\ \E e \in ChatCreateErrors :
       LET after == AfterChatCreateThrew([taskB[t] EXCEPT !.store = activeStoreName], e) IN
       /\ after.pc = "awaitCreate" => histB.creates < MaxCreatesB
       /\ taskB' = [taskB EXCEPT ![t] = after]
       /\ activeStoreName' = IF after.pc = "awaitCreate" THEN None ELSE activeStoreName
       /\ histB' = [histB EXCEPT
             !.creates = @ + (IF after.pc = "awaitCreate" THEN 1 ELSE 0),
             !.firstWaveReturned =
                 IF taskB[t].startedEmpty THEN @ \cup {activeStoreName} ELSE @]
  /\ UNCHANGED <<envApiKey, currentChat, serverStores>>
  /\ UNCHANGED <<variant, varsR, varsA, app, uploader>>

\* fileSearchStores.create resolves, getOrCreateStore returns the new name and
\* ai.chats.create throws
InitSessionB_CreateResolves_ChatThrows(t) ==
  /\ variant = "B"
  /\ taskB[t].op = "init"
  /\ taskB[t].pc = "awaitCreate"
  /\ \E e \in ChatCreateErrors :
       LET n == Cardinality(histB.created) + 1
           after == AfterChatCreateThrew([taskB[t] EXCEPT !.store = n, !.createdOwn = n], e)
       IN
       /\ after.pc = "awaitCreate" => histB.creates < MaxCreatesB
       /\ serverStores' = serverStores \cup {n}
       /\ taskB' = [taskB EXCEPT ![t] = after]
       /\ activeStoreName' = IF after.pc = "awaitCreate" THEN None ELSE n
       /\ histB' = [histB EXCEPT
             !.creates = @ + (IF after.pc = "awaitCreate" THEN 1 ELSE 0),
             !.created = @ \cup {n},
             !.firstWaveCreated = IF taskB[t].startedEmpty THEN @ \cup {n} ELSE @,
             !.firstWaveReturned = IF taskB[t].startedEmpty THEN @ \cup {n} ELSE @]
  /\ UNCHANGED <<envApiKey, currentChat>>
  /\ UNCHANGED <<variant, varsR, varsA, app, uploader>>

InitInitB ==
  /\ InitStoreB
  /\ envApiKey

NextInitB ==
  \/ InitSessionB_Call(1)
  \/ \E n \in StoreNames : InitSessionB_CallWithStore(1, n)
  \/ StoreGetResolves(1)
  \/ StoreGetRejects(1)
  \/ StoreCreateResolves(1)
  \/ StoreCreateRejects(1)
  \/ StoreCreateBackoffElapsed(1)
  \/ InitSessionB_GetResolves_ChatThrows(1)
  \/ InitSessionB_CreateResolves_ChatThrows(1)
  \/ \E n \in StoreNames : ServerLosesStore(n)
  \/ InitSessionB_Settled(1)

SpecInitB == InitInitB /\ [][NextInitB]_vars

NextInitA ==
  \/ \E k \in KeysA : setApiKey(k)
  \/ clearApiKey
  \/ InitSessionA_Call(1)
  \/ \E p \in PromiseIds : CreateStoreResolves(p)
  \/ \E p \in PromiseIds : CreateStoreRejects(p)
  \/ InitSessionA_Resume(1)
  \/ InitSessionA_Throws(1)
  \/ InitSessionA_Settled(1)

InitInit == InitStoreA \/ InitInitB

NextInit == NextInitA \/ NextInitB

SpecInit == InitInit /\ [][NextInit]_vars

\* C23: every initializeChatSession call that completes has created one
\* session in its last attempt and leaves exactly that session installed,
\* whatever session was there before; the session is bound to the store of the
\* memo promise the call took when it was made (variant A), or to the store
\* name supplied, or else to the name its store resolution left cached
\* (variant B).
C23_RefreshInstallsNewSession ==
  [][ /\ \A t \in TasksA :
           /\ (taskA[t].pc = "idle" /\ taskA'[t].op = "init" /\ taskA'[t].pc = "awaitStore") =>
                 taskA'[t].promise = fileSearchStorePromise'
           /\ (taskA[t].pc = "awaitStore" /\ taskA'[t].op = "init" /\ taskA'[t].pc = "done") =>
                 /\ taskA'[t].sessions = 1
                 /\ currentChatSession' = taskA'[t].session
                 /\ currentChatSession'.store = promises[taskA[t].promise].store
                 /\ currentChatSession'.store # None
      /\ \A t \in TasksB :
           (taskB[t].pc # "done" /\ taskB'[t].op = "init" /\ taskB'[t].pc = "done") =>
                 /\ taskB'[t].sessions = 1
                 /\ currentChat' = taskB'[t].session
                 /\ currentChat'.store =
                       IF taskB'[t].storeName # None THEN taskB'[t].storeName
                                                     ELSE activeStoreName'
                 /\ currentChat'.store # None
    ]_vars

\* a refresh has replaced a session bound to another store
C23_Witness ==
  \/ /\ variant = "A"
     /\ \E t \in TasksA :
          /\ taskA[t].op = "init" /\ taskA[t].pc = "done"
          /\ currentChatSession = taskA[t].session
          /\ taskA[t].store > 1
          /\ histA.calls >= 2
  \/ /\ variant = "B"
     /\ \E t \in TasksB :
          /\ taskB[t].op = "init" /\ taskB[t].pc = "done"
          /\ currentChat = taskB[t].session
          /\ taskB[t].store > 1
          /\ histB.calls >= 2

InitsB == {t \in TasksB : taskB[t].op = "init"}

\* C24: initializeChatSession of variant B makes at most two ai.chats.create
\* calls.  After a first one that failed with a 404 and no storeName it clears
\* the cached name, resolves the store again by creating one, and calls
\* ai.chats.create once more on that store; when this second call fails too,
\* the call rejects with the second error.  With a storeName, or after an
\* error that is not a 404, the call rejects with the first error after one
\* ai.chats.create call.
C24_OneRetryOnStaleSession ==
  \A t \in InitsB :
    LET tk == taskB[t] IN
    /\ tk.chatCreates <= 2
    /\ Len(tk.chatErrors) <= tk.chatCreates
    /\ tk.chatErrors # <<>> =>
         IF getErrorStatus(tk.chatErrors[1]) = 404 /\ tk.storeName = None
         THEN /\ tk.pc \in {"awaitCreate", "backoffCreate"} =>
                    (tk.chatCreates = 1 /\ activeStoreName = None)
              /\ tk.chatCreates = 2 =>
                    /\ tk.store = tk.createdOwn
                    /\ tk.store = activeStoreName
                    /\ tk.pc \in {"done", "rejected"}
              /\ Len(tk.chatErrors) = 2 => (tk.pc = "rejected" /\ tk.error = tk.chatErrors[2])
              /\ tk.pc = "done" =>
                    (tk.chatCreates = 2 /\ Len(tk.chatErrors) = 1 /\
                     currentChat = [store |-> tk.store])
         ELSE /\ tk.chatCreates = 1
              /\ tk.pc = "rejected"
              /\ tk.error = tk.chatErrors[1]

\* the retry after a 404 has installed a session on the re-created store
C24_Witness ==
  \E t \in InitsB :
    /\ taskB[t].pc = "done"
    /\ taskB[t].chatErrors = <<NotFound>>
    /\ taskB[t].chatCreates = 2
    /\ currentChat = [store |-> taskB[t].store]

\* C28: a getOrCreateStore call whose liveness check (fileSearchStores.get)
\* failed with an error that is not a 404 has not gone on to create a store:
\* it is not in fileSearchStores.create and holds no store it created.
C28_DiscardOnlyOnNotFound ==
  \A t \in TasksB :
    (taskB[t].getError # NoErr /\ getErrorStatus(taskB[t].getError) # 404) =>
       /\ taskB[t].pc \notin {"awaitCreate", "backoffCreate"}
       /\ taskB[t].createdOwn = None

\* the file's upload step has succeeded: files.upload returned a resource name
UploadSucceeded(tk) == tk.uri # None

\* C26: for every document that uploadFileToGemini has returned to the list,
\* uploadUri is set exactly when the status is 'active', or the status is
\* 'error' and the upload step of that run had succeeded.
C26_UploadUriIffReached ==
  /\ \A t \in UploadsA :
       taskA[t].pc = "returned" =>
          (taskA[t].doc.uploadUri # None <=>
             \/ taskA[t].doc.status = "active"
             \/ (taskA[t].doc.status = "error" /\ UploadSucceeded(taskA[t])))
  /\ \A t \in UploadsB :
       taskB[t].pc = "returned" =>
          (taskB[t].doc.uploadUri # None <=>
             \/ taskB[t].doc.status = "active"
             \/ (taskB[t].doc.status = "error" /\ UploadSucceeded(taskB[t])))

(***************************************************************************)
(* Deleting a file from the list.  App of variant B: removeFile (App.tsx   *)
(* 102-118); App of variant A: handleRemoveFile (App.tsx 695-700).  Here   *)
(* app holds the file list and the removeFile call in progress, one call   *)
(* at a time, its service calls running on task 1.  The list is one the    *)
(* indexing pipeline can have left: a file has an uploadUri exactly when   *)
(* it is 'active', and then a credential and a store have existed.         *)
(***************************************************************************)
NoRemoval == [pc |-> "idle", id |-> None, uri |-> None, deleteCalls |-> 0,
              refreshes |-> 0, logged |-> NoErr, threw |-> FALSE]

ListedDoc(i, active) ==
  [id |-> i, status |-> IF active THEN "active" ELSE "error",
   uploadUri |-> IF active THEN i ELSE None]

FileListings ==
  UNION {{[i \in 1..n |-> ListedDoc(i, a[i])] : a \in [1..n -> BOOLEAN]} : n \in 1..MaxListed}

Listed(files, id) == \E i \in 1..Len(files) : files[i].id = id

\* files.find(f => f.id === id), for an id in the list
Find(files, id) == files[CHOOSE i \in 1..Len(files) : files[i].id = id]

\* prev.filter(f => f.id !== id)
Filter(files, id) == SelectSeq(files, LAMBDA f : f.id # id)

InitRemoveB ==
  /\ variant = "B"
  /\ envApiKey \in BOOLEAN
  /\ \E fl \in FileListings :
       /\ (\E i \in 1..Len(fl) : fl[i].uploadUri # None) => envApiKey
       /\ app = [files |-> fl, remove |-> NoRemoval]
       /\ IF \E i \in 1..Len(fl) : fl[i].uploadUri # None
          THEN /\ activeStoreName = 1
               /\ serverStores \in {{1}, {}}
               /\ currentChat = [store |-> 1]
               /\ histB = [IdleHistB EXCEPT !.creates = 1, !.created = {1}]
          ELSE /\ activeStoreName = None
               /\ serverStores = {}
               /\ currentChat = NoChat
               /\ histB = IdleHistB
  /\ taskB = [t \in TasksB |-> IdleTaskB]
  /\ uploader = NoSelection
  /\ IdleR /\ IdleA

\* removeFile(id) up to its first await: the file leaves the list, and with
\* an uploadUri deleteFileFromGemini is called
RemoveFile_Call(id) ==
  /\ variant = "B"
  /\ app.remove.pc = "idle"
  /\ taskB[1].pc = "idle"
  /\ Listed(app.files, id)
  /\ LET fileToRemove == Find(app.files, id) IN
     IF fileToRemove.uploadUri # None
     THEN /\ app' = [files |-> Filter(app.files, id),
                     remove |-> [NoRemoval EXCEPT !.pc = "awaitDelete", !.id = id,
                                    !.uri = fileToRemove.uploadUri, !.deleteCalls = 1]]
          /\ taskB' = [taskB EXCEPT ![1] = DeleteB_Entry("deleteFile", fileToRemove.uploadUri)]
     ELSE /\ app' = [files |-> Filter(app.files, id),
                     remove |-> [NoRemoval EXCEPT !.pc = "returned", !.id = id]]
          /\ UNCHANGED taskB
  /\ UNCHANGED <<envApiKey, activeStoreName, currentChat, serverStores, histB>>
  /\ UNCHANGED <<variant, varsR, varsA, uploader>>

\* removeFile once a call inside its try block has thrown e: "catch (e) {
\* console.error(...) }" (lines 114-116), and the function returns
AfterCleanupFailed(a, e) ==
  [a EXCEPT !.remove = [@ EXCEPT !.pc = "returned", !.logged = e]]

\* "await deleteFileFromGemini(...)" has settled: on its return
\* initializeChatSession() is called, on its rejection the catch block runs
RemoveFile_DeleteSettled ==
  /\ variant = "B"
  /\ app.remove.pc = "awaitDelete"
  /\ taskB[1].op = "deleteFile"
  /\ taskB[1].pc \in {"done", "rejected"}
  /\ IF taskB[1].pc = "done"
     THEN /\ envApiKey => histB.creates + CreatesOnEntry <= MaxCreatesB
          /\ app' = [app EXCEPT !.remove = [@ EXCEPT !.pc = "awaitInit", !.refreshes = 1]]
          /\ taskB' = [taskB EXCEPT ![1] = InitSessionB_Entry]
          /\ histB' = [histB EXCEPT
                !.creates = @ + (IF envApiKey THEN CreatesOnEntry ELSE 0)]
     ELSE /\ app' = AfterCleanupFailed(app, taskB[1].error)
          /\ taskB' = [taskB EXCEPT ![1] = IdleTaskB]
          /\ UNCHANGED histB
  /\ UNCHANGED <<envApiKey, activeStoreName, currentChat, serverStores>>
  /\ UNCHANGED <<variant, varsR, varsA, uploader>>

\* "await initializeChatSession()" has settled: removeFile returns, through
\* the catch block when the refresh rejected
RemoveFile_InitSettled ==
  /\ variant = "B"
  /\ app.remove.pc = "awaitInit"
  /\ taskB[1].op = "init"
  /\ taskB[1].pc \in {"done", "rejected"}
  /\ app' = IF taskB[1].pc = "done"
            THEN [app EXCEPT !.remove = [@ EXCEPT !.pc = "returned"]]
            ELSE AfterCleanupFailed(app, taskB[1].error)
  /\ taskB' = [taskB EXCEPT ![1] = IdleTaskB]
  /\ UNCHANGED <<envApiKey, activeStoreName, currentChat, serverStores, histB>>
  /\ UNCHANGED <<variant, varsR, varsA, uploader>>

\* the user deletes another file
RemoveFile_Next ==
  /\ app.remove.pc = "returned"
  /\ app.files # <<>>
  /\ app' = [app EXCEPT !.remove = NoRemoval]
  /\ UNCHANGED <<variant, varsR, varsA, varsB, uploader>>

NextRemoveB ==
  \/ \E id \in 1..MaxListed : RemoveFile_Call(id)
  \/ DeleteB_Resolves(1)
  \/ DeleteB_Rejects(1)
  \/ DeleteB_BackoffElapsed(1)
  \/ RemoveFile_DeleteSettled
  \/ StoreGetResolves(1)
  \/ StoreGetRejects(1)
  \/ StoreCreateResolves(1)
  \/ StoreCreateRejects(1)
  \/ StoreCreateBackoffElapsed(1)
  \/ RemoveFile_InitSettled
  \/ RemoveFile_Next

SpecRemoveB == InitRemoveB /\ [][NextRemoveB]_vars

InitRemoveA ==
  /\ variant = "A"
  /\ userApiKey \in KeysA
  /\ currentChatSession = NoSession
  /\ fileSearchStorePromise = 1
  /\ promises = <<[state |-> "fulfilled", store |-> 1, key |-> userApiKey, error |-> NoErr]>>
  /\ taskA = [t \in TasksA |-> IdleTaskA]
  /\ histA = [IdleHistA EXCEPT !.keyChanges = 1, !.creates = 1]
  /\ \E fl \in FileListings : app = [files |-> fl, remove |-> NoRemoval]
  /\ uploader = NoSelection
  /\ IdleR /\ IdleB

\* handleRemoveFile(id): the file leaves the list; no service call is made
HandleRemoveFile(id) ==
  /\ variant = "A"
  /\ app.remove.pc = "idle"
  /\ Listed(app.files, id)
  /\ app' = [files |-> Filter(app.files, id),
             remove |-> [NoRemoval EXCEPT !.pc = "returned", !.id = id,
                            !.uri = Find(app.files, id).uploadUri]]
  /\ UNCHANGED <<variant, varsR, varsA, varsB, uploader>>

NextRemoveA ==
  \/ \E id \in 1..MaxListed : HandleRemoveFile(id)
  \/ RemoveFile_Next

SpecRemoveA == InitRemoveA /\ [][NextRemoveA]_vars

InitRemove == InitRemoveA \/ InitRemoveB

NextRemove == NextRemoveA \/ NextRemoveB

SpecRemove == InitRemove /\ [][NextRemove]_vars

\* C27: once the user has deleted a file, the file is not in the list, during
\* the remote clean-up and after it, whatever its outcome; when the file had
\* an uploadUri the handler has called the remote deletion once; and the
\* handler has not thrown.
C27_BestEffortRemoteDeletion ==
  app.remove.pc # "idle" =>
     /\ ~Listed(app.files, app.remove.id)
     /\ app.remove.uri # None => app.remove.deleteCalls = 1
     /\ ~app.remove.threw

(***************************************************************************)
(* The model message of the UI send handlers.  A text is the sequence of   *)
(* its non-empty pieces, as fullText is.  The handlers touch the message   *)
(* only in the onChunk callback, in the catch block and in the finally     *)
(* block, so the message is computed from the onChunk calls the send has   *)
(* made and from its outcome: handleSendMessage of the App of variant B    *)
(* (App.tsx 120-169), handleSendMessage of the App of variant A (App.tsx   *)
(* 715-775) and useChatManager.sendMessage (part_003 106-174), which runs  *)
(* on the service of variant A.                                            *)
(***************************************************************************)
SendHandlersA == {"handleSendMessageA", "useChatManager"}
SendHandlersB == {"handleSendMessageB"}

\* the placeholder added before the send: text '', isStreaming true
Placeholder == [text |-> <<>>, isStreaming |-> TRUE]

\* the onChunk callback.  The Apps: text: msg.text + chunk.  useChatManager:
\* first updateMessage(id, {text: messages.find(...)?.text + chunk || chunk}),
\* where messages is the array of the render that created the callback, in
\* which the new message is not found, so the text becomes undefined + chunk,
\* that is 'undefined' followed by the chunk; then text: msg.text + chunk
OnChunk(handler, msg, chunk) ==
  IF handler = "useChatManager"
  THEN [msg EXCEPT !.text = Accumulate(Accumulate(<<"undefined">>, chunk), chunk)]
  ELSE [msg EXCEPT !.text = Accumulate(@, chunk)]

RECURSIVE AfterOnChunkCalls(_, _, _)
AfterOnChunkCalls(handler, msg, calls) ==
  IF calls = <<>> THEN msg
  ELSE OnChunk(handler,
               AfterOnChunkCalls(handler, msg, SubSeq(calls, 1, Len(calls) - 1)),
               calls[Len(calls)].text)

\* the catch block: the text is replaced by an error text
CaughtText(handler, e) ==
  IF handler = "handleSendMessageB"
  THEN <<"Error: " \o (IF e.msg = ""
                       THEN "An unexpected error occurred during RAG analysis. Please try again."
                       ELSE e.msg)>>
  ELSE <<"I encountered an error processing your request. Please try again.">>

\* the model message while the send of task tk runs and after it has settled
\* (the finally block clears isStreaming)
ModelMessage(handler, tk) ==
  LET streamed == AfterOnChunkCalls(handler, Placeholder, tk.delivered)
      caught == IF tk.pc = "rejected"
                THEN [streamed EXCEPT !.text = CaughtText(handler, tk.error)]
                ELSE streamed
  IN IF tk.pc \in {"done", "rejected"} THEN [caught EXCEPT !.isStreaming = FALSE]
     ELSE streamed

\* C25: a send that has failed after onChunk calls leaves in the model
\* message the text those calls had built, with isStreaming false.
C25_PartialTextKeptOnFailure ==
  /\ \A t \in SendsA : \A h \in SendHandlersA :
       (taskA[t].pc = "rejected" /\ taskA[t].delivered # <<>>) =>
          /\ ModelMessage(h, taskA[t]).text =
                AfterOnChunkCalls(h, Placeholder, taskA[t].delivered).text
          /\ ~ModelMessage(h, taskA[t]).isStreaming
  /\ \A t \in SendsB : \A h \in SendHandlersB :
       (taskB[t].pc = "rejected" /\ taskB[t].delivered # <<>>) =>
          /\ ModelMessage(h, taskB[t]).text =
                AfterOnChunkCalls(h, Placeholder, taskB[t].delivered).text
          /\ ~ModelMessage(h, taskB[t]).isStreaming

\* C29: a send whose stream has ended without error leaves in the model
\* message the concatenation of the texts of the stream's fragments in
\* arrival order, with isStreaming false, in every send handler.
C29_FinalTextIsConcatenation ==
  /\ \A t \in SendsA : \A h \in SendHandlersA :
       taskA[t].pc = "done" =>
          /\ ModelMessage(h, taskA[t]).text = ConcatTexts(taskA[t].fragments)
          /\ ~ModelMessage(h, taskA[t]).isStreaming
  /\ \A t \in SendsB : \A h \in SendHandlersB :
       taskB[t].pc = "done" =>
          /\ ModelMessage(h, taskB[t]).text = ConcatTexts(taskB[t].fragments)
          /\ ~ModelMessage(h, taskB[t]).isStreaming

\* C30: in a batch of handleAddFiles, initializeChatSession is not called
\* while the loop over the files runs; it is called once, in the step in
\* which the last file settles, when every file of the batch has settled and
\* has the status 'active' or 'error'; and the step in which that call
\* settles, resolved or rejected, leaves the status of every file as it was.
C30_RefreshOnceAfterBatch ==
  [][ /\ app'.pc = "uploading" => app'.refreshes = 0
      /\ app'.pc \in {"refreshing", "done"} =>
            /\ app'.refreshes = 1
            /\ app'.settled = 1..app'.n
            /\ Len(app'.status) = app'.n
            /\ \A i \in 1..app'.n : app'.status[i] \in {"active", "error"}
      /\ (app'.refreshes = 1 /\ app.refreshes = 0) =>
            (app.pc = "uploading" /\ app'.pc = "refreshing")
      /\ (app.pc = "refreshing" /\ app'.pc = "done") => app'.status = app.status
    ]_vars

\* a batch with an indexed file and a failed one whose refresh has failed
C30_Witness ==
  /\ app.pc = "done"
  /\ app.refreshError # NoErr
  /\ app.n = 2
  /\ \E i \in 1..2 : app.status[i] = "active"
  /\ \E i \in 1..2 : app.status[i] = "error"

(***************************************************************************)
(* Claims about interleavings with credential changes (variant A)          *)
(***************************************************************************)

\* C34: a failing store creation clears only its own memoized promise: when
\* the promise that rejects is not the one fileSearchStorePromise holds (the
\* memo was reset and a newer creation was memoized meanwhile), the step
\* leaves fileSearchStorePromise as it was.
C34_FailureClearsOwnMemoOnly ==
  [][ \A p \in PromiseIds :
        ( /\ p <= Len(promises)
          /\ promises[p].state = "pending"
          /\ promises'[p].state = "rejected"
          /\ fileSearchStorePromise # None
          /\ fileSearchStorePromise # p ) =>
             fileSearchStorePromise' = fileSearchStorePromise
    ]_vars

\* C35: the current session was created by a call made after the last
\* setApiKey or clearApiKey: no call of initializeChatSession that was made
\* before a credential change has installed its session after it.
C35_NoSessionFromBeforeKeyChange ==
  currentChatSession # NoSession =>
     currentChatSession.changesAtCall = histA.keyChanges

(***************************************************************************)
(* Deleting a store from the store manager (part_007 324-337) while the    *)
(* service of variant A holds it memoized: one call at a time on task 1.   *)
(***************************************************************************)
\* the stores the manager lists: those created and not yet deleted
ListedStores ==
  {promises[p].store : p \in {q \in 1..Len(promises) : promises[q].state = "fulfilled"}}
     \ histA.deleted

NextDeleteStoreA ==
  \/ \E k \in KeysA : HandleApiKeySubmit(k)
  \/ InitSessionA_Call(1)
  \/ \E p \in PromiseIds : CreateStoreResolves(p)
  \/ \E p \in PromiseIds : CreateStoreRejects(p)
  \/ InitSessionA_Resume(1)
  \/ InitSessionA_Throws(1)
  \/ InitSessionA_Settled(1)
  \/ UploadA_Call(1, TRUE)
  \/ UploadA_StoreReady(1)
  \/ UploadA_StoreFailed(1)
  \/ UploadA_UploadResolves(1)
  \/ UploadA_UploadRejects(1)
  \/ UploadA_ImportResolves(1)
  \/ UploadA_ImportRejects(1)
  \/ UploadA_PollDelayElapsed(1)
  \/ UploadA_PollResolves(1)
  \/ UploadA_PollRejects(1)
  \/ UploadA_Settled(1)
  \/ \E n \in ListedStores : DeleteFileStoreA_CallFor(1, n)
  \/ RemoteCallA_Resolves(1)
  \/ RemoteCallA_Rejects(1)
  \/ RemoteCallA_Settled(1)

SpecDeleteStoreA == InitStoreA /\ [][NextDeleteStoreA]_vars

\* C37: no initializeChatSession call has bound its session to, and no
\* uploadFileToGemini call has imported into, a store that deleteFileStore
\* had deleted before the call was made.
C37_DeletedStoreNotReused ==
  \A t \in TasksA :
    /\ (taskA[t].op = "init" /\ taskA[t].pc = "done") =>
          taskA[t].store \notin taskA[t].deletedAtCall
    /\ (taskA[t].op = "upload" /\ taskA[t].imported) =>
          taskA[t].store \notin taskA[t].deletedAtCall

(***************************************************************************)
(* A send of variant B on task 1 while a session refresh                   *)
(* (initializeChatSession from clearChat, removeFile or a finishing batch) *)
(* runs on task 2.  The response streams carry no fragments and do not     *)
(* fail once open, and fileSearchStores.create does not fail here.         *)
(***************************************************************************)
InitSendRefreshB ==
  /\ InitSendB
  /\ envApiKey

NextSendRefreshB ==
  \/ SendB_Call(1)
  \/ SendB_SendResolves(1)
  \/ SendB_SendRejects(1)
  \/ SendB_BackoffElapsed(1)
  \/ SendB_StreamEnds(1)
  \/ SendB_Settled(1)
  \/ InitSessionB_Call(2)
  \/ InitSessionB_Settled(2)
  \/ \E t \in {1, 2} : StoreGetResolves(t)
  \/ \E t \in {1, 2} : StoreGetRejects(t)
  \/ \E t \in {1, 2} : StoreCreateResolves(t)

SpecSendRefreshB == InitSendRefreshB /\ [][NextSendRefreshB]_vars

\* C36: every retry of a send is dispatched to the session its previous
\* attempt was dispatched to: the step in which withRetry's timer fires and
\* sendMessageStream is called again leaves the send's session as it was.
C36_RetriesOnSameSession ==
  [][ \A t \in TasksB :
        ( /\ taskB[t].op = "send"
          /\ taskB[t].pc = "backoffSend"
          /\ taskB'[t].pc = "awaitSend" ) =>
             taskB'[t].session = taskB[t].session
    ]_vars

(***************************************************************************)
(* The file list under overlapping handleAddFiles calls and removals.      *)
(* Here app holds the list (id and status of each file), the               *)
(* handleAddFiles calls in progress and the next fresh id                  *)
(* (crypto.randomUUID in FileUploader).  uploadFileToGemini is taken by    *)
(* its outcomes: its upload step may succeed, which leaves a remote file   *)
(* (named here by the file's id); it returns a document with status        *)
(* 'active' and that name as uploadUri, or one with status 'error' and no  *)
(* uploadUri, or it throws.  App of variant B: App.tsx 69-93 and 102-118; App of      *)
(* variant A and useFileManager: App.tsx 654-700, part_003 284-336.  The   *)
(* send handlers do not write the list.                                    *)
(***************************************************************************)
BatchIds == 1..MaxBatches

NoRun == [pc |-> "idle", ids |-> <<>>, i |-> 0, uploaded |-> FALSE]

\* prev.map(f => f.id === id ? { ...f, ...updates } : f), for the status
UpdateFile_All(files, id, status) ==
  [k \in 1..Len(files) |-> [files[k] EXCEPT !.status = status]]
UpdateFile(files, id, status) ==
  [k \in 1..Len(files) |->
     IF files[k].id = id THEN [files[k] EXCEPT !.status = status] ELSE files[k]]

\* the same, for the document uploadFileToGemini returned: uploadUri is set
\* in the 'active' document only
StoreResult(files, id, status) ==
  [k \in 1..Len(files) |->
     IF files[k].id = id
     THEN [files[k] EXCEPT !.status = status,
                           !.uploadUri = IF status = "active" THEN id ELSE None]
     ELSE files[k]]

InitList ==
  /\ variant \in {"A", "B"}
  /\ app = [files |-> <<>>, runs |-> [b \in BatchIds |-> NoRun], nextId |-> 1,
            removed |-> {}, remoteFiles |-> {}, deleteCalls |-> {}]
  /\ uploader = NoSelection
  /\ IdleR /\ IdleA /\ IdleB

\* handleAddFiles(newFiles) up to its first await: the files are appended,
\* 'uploading' at once in the App of variant B, as they are ('pending') in the
\* others, where the loop body then marks the first one 'uploading'
List_HandleAddFiles(b, n) ==
  /\ app.runs[b].pc = "idle"
  /\ app.nextId + n - 1 <= MaxFileIds
  /\ LET ids == [k \in 1..n |-> app.nextId + k - 1]
         added == [k \in 1..n |->
                     [id |-> ids[k], uploadUri |-> None,
                      status |-> IF variant = "B" THEN "uploading" ELSE "pending"]]
         listed == app.files \o added
     IN app' = [app EXCEPT
           !.files = IF variant = "B" THEN listed ELSE UpdateFile(listed, ids[1], "uploading"),
           !.runs[b] = [pc |-> "awaitUpload", ids |-> ids, i |-> 1, uploaded |-> FALSE],
           !.nextId = @ + n]
  /\ UNCHANGED <<variant, varsR, varsA, varsB, uploader>>

\* inside uploadFileToGemini, ai.files.upload resolves with a resource name
List_UploadStepSucceeds(b) ==
  /\ app.runs[b].pc = "awaitUpload"
  /\ ~app.runs[b].uploaded
  /\ app' = [app EXCEPT !.runs[b].uploaded = TRUE,
                        !.remoteFiles = @ \cup {app.runs[b].ids[app.runs[b].i]}]
  /\ UNCHANGED <<variant, varsR, varsA, varsB, uploader>>

\* "await uploadFileToGemini(fileDoc)" settles: the result, or 'error' in the
\* catch block, is stored under the file's id; the loop goes on to the next
\* file, or ends and initializeChatSession() is called
List_UploadSettles(b, status) ==
  /\ app.runs[b].pc = "awaitUpload"
  /\ LET run == app.runs[b]
         stored == UpdateFile(app.files, run.ids[run.i], status)
     IN IF run.i < Len(run.ids)
        THEN app' = [app EXCEPT
                !.files = IF variant = "B" THEN stored
                          ELSE UpdateFile(stored, run.ids[run.i + 1], "uploading"),
                !.runs[b].i = @ + 1]
        ELSE app' = [app EXCEPT !.files = stored, !.runs[b].pc = "refreshing"]
  /\ UNCHANGED <<variant, varsR, varsA, varsB, uploader>>

\* the same step with the returned document's uploadUri followed: an
\* 'active' document is returned only after the upload step succeeded
List_UploadReturns(b, status) ==
  /\ app.runs[b].pc = "awaitUpload"
  /\ status = "active" => app.runs[b].uploaded
  /\ LET run == app.runs[b]
         stored == StoreResult(app.files, run.ids[run.i], status)
     IN IF run.i < Len(run.ids)
        THEN app' = [app EXCEPT
                !.files = IF variant = "B" THEN stored
                          ELSE UpdateFile(stored, run.ids[run.i + 1], "uploading"),
                !.runs[b].i = @ + 1, !.runs[b].uploaded = FALSE]
        ELSE app' = [app EXCEPT !.files = stored, !.runs[b].pc = "refreshing"]
  /\ UNCHANGED <<variant, varsR, varsA, varsB, uploader>>

\* "await initializeChatSession()" settles: the handler returns or rejects
List_Refreshed(b) ==
  /\ app.runs[b].pc = "refreshing"
  /\ app' = [app EXCEPT !.runs[b].pc = "done"]
  /\ UNCHANGED <<variant, varsR, varsA, varsB, uploader>>

\* removeFile(id) / handleRemoveFile(id): prev.filter(f => f.id !== id);
\* removeFile calls deleteFileFromGemini "if (fileToRemove.uploadUri)"
List_RemoveFile(id) ==
  /\ Listed(app.files, id)
  /\ app' = [app EXCEPT !.files = Filter(@, id), !.removed = @ \cup {id},
                        !.deleteCalls =
                           IF variant = "B" /\ Find(app.files, id).uploadUri # None
                           THEN @ \cup {Find(app.files, id).uploadUri} ELSE @]
  /\ UNCHANGED <<variant, varsR, varsA, varsB, uploader>>

NextList ==
  \/ \E b \in BatchIds, n \in 1..MaxSelected : List_HandleAddFiles(b, n)
  \/ \E b \in BatchIds, st \in {"active", "error"} : List_UploadSettles(b, st)
  \/ \E b \in BatchIds : List_Refreshed(b)
  \/ \E id \in 1..MaxFileIds : List_RemoveFile(id)

SpecList == InitList /\ [][NextList]_vars

ListedStatus(files, id) == Find(files, id).status

\* C38: in every step, a file that stays in the list keeps its status or
\* moves from 'pending' to 'uploading' or from 'uploading' to 'active' or
\* 'error'; a file enters the list as 'pending' or 'uploading', and a file
\* that was removed does not come back.
C38_StatusOnlyForward ==
  [][ \A id \in 1..MaxFileIds :
        /\ (Listed(app.files, id) /\ Listed(app'.files, id)) =>
              \/ ListedStatus(app'.files, id) = ListedStatus(app.files, id)
              \/ <<ListedStatus(app.files, id), ListedStatus(app'.files, id)>> \in
                    {<<"pending", "uploading">>, <<"uploading", "active">>,
                     <<"uploading", "error">>}
        /\ (~Listed(app.files, id) /\ Listed(app'.files, id)) =>
              /\ ListedStatus(app'.files, id) \in {"pending", "uploading"}
              /\ id \notin app.removed
    ]_vars

\* two overlapping batches: a file of the first is indexed, one of the second
\* has failed and one is uploading, and a file has been removed
C38_Witness ==
  /\ \E b1, b2 \in BatchIds : b1 # b2 /\ app.runs[b1].pc = "awaitUpload"
                                      /\ app.runs[b2].pc # "idle"
  /\ \E k \in 1..Len(app.files) : app.files[k].status = "active"
  /\ \E k \in 1..Len(app.files) : app.files[k].status = "error"
  /\ \E k \in 1..Len(app.files) : app.files[k].status = "uploading"
  /\ app.removed # {}

(***************************************************************************)
(* The file list with the files on the server, for one handleAddFiles call *)
(* and the removals that interleave with it.                               *)
(***************************************************************************)
NextListRemote ==
  \/ \E n \in 1..MaxSelected : List_HandleAddFiles(1, n)
  \/ List_UploadStepSucceeds(1)
  \/ \E st \in {"active", "error"} : List_UploadReturns(1, st)
  \/ List_Refreshed(1)
  \/ \E id \in 1..MaxFileIds : List_RemoveFile(id)

SpecListRemote == InitList /\ [][NextListRemote]_vars

\* C39: every remote file that an upload step has created is the file of an
\* entry of the list, or deleteFileFromGemini has been called for it.
C39_NoOrphanedRemoteFile ==
  \A id \in app.remoteFiles : Listed(app.files, id) \/ id \in app.deleteCalls

(***************************************************************************)
(* Chat continuity.  Sessions are told apart by the order of their         *)
(* creation: session n is the n-th object chats.create returned, None is   *)
(* no session.  Sends follow one another (the next one starts after the    *)
(* previous one settled); each runs as a whole.  path is the way the       *)
(* application sends: it calls sendMessageStream itself, or it goes        *)
(* through useChatManager.sendMessage.  app.sends lists the sends that     *)
(* reached a session, with the session each was dispatched to.             *)
(***************************************************************************)
SendPaths == {"sendMessageStream", "useChatManager"}
SendOutcomes == {"ok", "error", "notFound"}

\* initializeChatSession() settles: on success the variable holds a new
\* session; on failure it is left as it was
AfterInitializeChatSession(a, ok) ==
  IF ok THEN [a EXCEPT !.current = a.created + 1, !.created = @ + 1] ELSE a

\* useChatManager's ensureChatSession: "await initializeChatSession()",
\* whatever the variable holds
AfterEnsureChatSession(a, ok) == AfterInitializeChatSession(a, ok)

\* sendMessageStream's entry: "if (!currentChat) await initializeChatSession()"
AfterSessionCheck(a, ok) ==
  IF a.current = None THEN AfterInitializeChatSession(a, ok) ELSE a

\* sendMessageStream's catch: variant B drops the session on a 404
AfterSendOutcome(a, outcome) ==
  IF variant = "B" /\ outcome = "notFound"
  THEN [a EXCEPT !.current = None, !.clean = FALSE]
  ELSE a

InitChat ==
  /\ variant \in {"A", "B"}
  /\ \E path \in SendPaths :
       app = [path |-> path, current |-> None, created |-> 0, sends |-> <<>>,
              clean |-> TRUE, refreshes |-> 0]
  /\ uploader = NoSelection
  /\ IdleR /\ IdleA /\ IdleB

\* one send: through ensureChatSession first on the useChatManager path,
\* then sendMessageStream.  initOk is the outcome of an initializeChatSession
\* call the send makes, outcome that of the send on the session
Chat_Send(initOk, outcome) ==
  /\ Len(app.sends) < MaxDispatched
  /\ LET ensured == IF app.path = "useChatManager"
                    THEN AfterEnsureChatSession(app, initOk) ELSE app
         failedEarly == app.path = "useChatManager" /\ ~initOk
         checked == AfterSessionCheck(ensured, initOk)
     IN IF failedEarly \/ checked.current = None
        THEN app' = app
        ELSE app' = AfterSendOutcome(
                      [checked EXCEPT
                         !.sends = Append(@, [session |-> checked.current,
                                              hadSession |-> app.current # None,
                                              created |-> checked.created - app.created,
                                              clean |-> app.clean]),
                         !.clean = TRUE],
                      outcome)
  /\ app' # app
  /\ UNCHANGED <<variant, varsR, varsA, varsB, uploader>>

\* a refresh between two sends: initializeChatSession() from clearChat, a
\* removal or the end of a batch
Chat_Refresh(ok) ==
  /\ app.refreshes < MaxRefreshes
  /\ app' = [AfterInitializeChatSession(app, ok) EXCEPT !.clean = FALSE,
                                                        !.refreshes = @ + 1]
  /\ UNCHANGED <<variant, varsR, varsA, varsB, uploader>>

\* setApiKey / clearApiKey between two sends (variant A): the session is dropped
Chat_KeyChange ==
  /\ variant = "A"
  /\ app.refreshes < MaxRefreshes
  /\ app' = [app EXCEPT !.current = None, !.clean = FALSE, !.refreshes = @ + 1]
  /\ UNCHANGED <<variant, varsR, varsA, varsB, uploader>>

NextChat ==
  \/ \E ok \in BOOLEAN, o \in SendOutcomes : Chat_Send(ok, o)
  \/ \E ok \in BOOLEAN : Chat_Refresh(ok)
  \/ Chat_KeyChange

SpecChat == InitChat /\ [][NextChat]_vars

\* C32: a send that follows another one with no refresh, invalidating error
\* or credential change in between goes to the session of the previous
\* send, and a send creates a session only when there was none.
C32_ChatContinuity ==
  \A k \in 1..Len(app.sends) :
    /\ (k > 1 /\ app.sends[k].clean) => app.sends[k].session = app.sends[k - 1].session
    /\ app.sends[k].created > 0 => ~app.sends[k].hadSession

\* the same, for the applications that call sendMessageStream themselves
DirectPathContinuity ==
  app.path = "sendMessageStream" => C32_ChatContinuity

(***************************************************************************)
(* Claims about the listed files and the session's store                   *)
(***************************************************************************)
\* the files of the batch that the list shows as 'active'
ActiveFiles == {i \in 1..Len(app.status) : app.status[i] = "active"}

\* C33: when a session exists and no batch is running, every file shown as
\* 'active' was added to the store the session is bound to.
C33_ActiveFilesInSessionStore ==
  /\ (variant = "B" /\ currentChat # NoChat /\ app.pc \in {"idle", "done"}) =>
        \A i \in ActiveFiles : app.addedTo[i] = currentChat.store
  /\ (variant = "A" /\ currentChatSession # NoSession /\ app.pc \in {"idle", "done"}) =>
        \A i \in ActiveFiles : app.addedTo[i] = currentChatSession.store

(***************************************************************************)
(* The send handlers' guard: handleSendMessage (src/App.tsx, lines 120-169 *)
(* and 716-776) and useChatManager.sendMessage (the hook, lines 106-174).  *)
(* isProcessing is component state: the handler reads the value of the     *)
(* render it was created in (app.rendered) and writes the state            *)
(* (app.isProcessing).  The handler runs inside a click or key event, and  *)
(* the updates it makes before its first await are rendered before the     *)
(* next event is delivered; the update of the finally block is rendered    *)
(* later, by Ui_Render.  app.inFlight counts the sends dispatched and not  *)
(* settled.                                                                *)
(***************************************************************************)
SendHandlers == SendHandlersA \cup SendHandlersB

\* the handler's early returns: the input is empty, a send is in progress,
\* (handleSendMessage of the promise-memo App: an upload runs or the list
\* is empty,) or no file is 'active'
CanSend_IgnoresProcessing(processing, hasInput, hasActive) == hasInput /\ hasActive
CanSend(processing, hasInput, hasActive) == hasInput /\ ~processing /\ hasActive

InitUi ==
  /\ \E h \in SendHandlers :
       /\ variant = (IF h \in SendHandlersA THEN "A" ELSE "B")
       /\ app = [handler |-> h, isProcessing |-> FALSE, rendered |-> FALSE,
                 inFlight |-> 0, invoked |-> 0, refused |-> 0, settled |-> {}]
  /\ uploader = NoSelection
  /\ IdleR /\ IdleA /\ IdleB

\* the user presses Enter or clicks the send button: the handler up to
\* "await sendMessageStream(...)" (through ensureChatSession in the hook),
\* or to one of its early returns
Ui_HandleSendMessage(hasInput, hasActive) ==
  /\ app.invoked < MaxInvoked
  /\ IF CanSend(app.rendered, hasInput, hasActive)
     THEN app' = [app EXCEPT !.invoked = @ + 1, !.isProcessing = TRUE, !.rendered = TRUE,
                             !.inFlight = @ + 1]
     ELSE app' = [app EXCEPT !.invoked = @ + 1,
                             !.refused = @ + (IF app.rendered THEN 1 ELSE 0)]
  /\ UNCHANGED <<variant, varsR, varsA, varsB, uploader>>

\* the awaited send settles: the catch block on a rejection, then
\* "finally { setIsProcessing(false); ... }"
Ui_SendSettles(outcome) ==
  /\ app.inFlight > 0
  /\ app' = [app EXCEPT !.inFlight = @ - 1, !.isProcessing = FALSE,
                        !.settled = @ \cup {outcome}]
  /\ UNCHANGED <<variant, varsR, varsA, varsB, uploader>>

\* the component renders again: the handler of the new render sees the state
Ui_Render ==
  /\ app.rendered # app.isProcessing
  /\ app' = [app EXCEPT !.rendered = app.isProcessing]
  /\ UNCHANGED <<variant, varsR, varsA, varsB, uploader>>

NextUi ==
  \/ \E hasInput, hasActive \in BOOLEAN : Ui_HandleSendMessage(hasInput, hasActive)
  \/ \E o \in {"resolved", "rejected"} : Ui_SendSettles(o)
  \/ Ui_Render

SpecUi == InitUi /\ [][NextUi]_vars

\* C31: at most one send dispatched by the handler is in flight; isProcessing
\* is true exactly while one is, so it is false again once the send has
\* resolved or rejected; and an invocation made while isProcessing shows
\* true dispatches nothing.
C31_OneSendInFlight ==
  /\ app.inFlight <= 1
  /\ app.isProcessing <=> (app.inFlight = 1)
  /\ app.isProcessing => app.rendered

\* sends have resolved and rejected, an invocation was refused while one was
\* in progress, and a further send has been dispatched after them
C31_Witness ==
  /\ app.settled = {"resolved", "rejected"}
  /\ app.refused > 0
  /\ app.inFlight = 1

====
